---- MODULE Spec2Model ----
(***************************************************************************)
(* A model of the state-and-lookup core of the virtue chess engine:        *)
(*   - the two-slot transposition table  (src/src/transpositiontable.rs)   *)
(*   - the Board and its population from a FEN string (src/src/board.rs)   *)
(*   - the move-ordering tables (src/src/historytable.rs,                  *)
(*     src/src/board/history.rs)                                           *)
(* Specifications:                                                         *)
(*   Spec      sequential use of one TranspositionTable                    *)
(*   SpecConc  several workers sharing one table without locking          *)
(*   SpecFen   Board::new followed by calls of Board::set_from_fen         *)
(*   SpecMoves a position set up once, then generate_all_moves and        *)
(*             sq_attacked on it                                           *)
(*   SpecUndo  a position set up once, its moves generated, one of them    *)
(*             applied and taken back                                      *)
(*   SpecHist  the move-ordering tables (src/src/historytable.rs,          *)
(*             src/src/board/history.rs) under a driver that makes and     *)
(*             takes back moves                                            *)
(***************************************************************************)
EXTENDS Integers, Sequences, FiniteSets, TLC

VARIABLES
    table,      \* TranspositionTable::table, a Vec<Bucket> (1-indexed here)
    stored,     \* history: the keys passed to store() since the last fill
    nstores,    \* history: number of store() calls since the last fill
    lastStore,  \* history: the arguments of the call just made, if a store()
    lastProbe,  \* history: arguments and result of the call just made, if a probe()
    wk,         \* SpecConc: each worker's position inside store()/probe()
    calls,      \* SpecConc: history of the store() calls begun
    board,      \* the Board (one record, a field per struct field)
    fen,        \* outcome and argument of the last set_from_fen call
    move_list,  \* SpecMoves: the MoveList filled by generate_all_moves
    attacked,   \* SpecMoves: argument and result of the last sq_attacked call
    position,   \* SpecHist: the Board fields the heuristic tables read
    history_table,      \* Board::history_table, a HistoryTable
    counter_move_table, \* Board::counter_move_table, a MoveTable
    followup_history,   \* Board::followup_history, a DoubleHistoryTable
    killer_move_table,  \* Board::killer_move_table
    lastop,     \* SpecHist: history of the table calls made
    applied     \* SpecUndo: the move applied, and the Board before it

ttVars == <<table, stored, nstores, lastStore, lastProbe>>
concVars == <<wk, calls>>
fenVars == <<board, fen, move_list, attacked>>
histVars == <<position, history_table, counter_move_table, followup_history,
             killer_move_table, lastop>>
undoVars == <<applied>>
vars == <<table, stored, nstores, lastStore, lastProbe, wk, calls, board, fen,
          move_list, attacked, position, history_table, counter_move_table,
          followup_history, killer_move_table, lastop, applied>>

----------------------------------------------------------------------------
(* Bounds of the model *)

\* number of buckets (the const generic SIZE of TranspositionTable<SIZE>)
TableSize == 2
\* keys are 0..MaxKey
MaxKey == 2
\* moves are 1..MaxMove (0 is Move::NULL)
MaxMove == 1
\* plies from the root are 0..MaxPly
MaxPly == 1
\* depths are 0..MaxDepthArg
MaxDepthArg == 1
\* store() calls between two fills of the table
MaxStores == 2

----------------------------------------------------------------------------
(* Constants of the program *)

MATE_SCORE == 3000000
IS_MATE_SCORE == MATE_SCORE - 300
MoveNULL == 0
DepthNULL == 0

Keys == 0..MaxKey
Moves == 1..MaxMove
Plies == 0..MaxPly
Depths == 0..MaxDepthArg
\* the bound kinds a search passes to store(); HFlag::None marks unwritten entries
StoreFlags == {"Alpha", "Beta", "Exact"}
HFlag == {"None"} \cup StoreFlags
\* scores on both sides of the two mate thresholds
Scores == {-(IS_MATE_SCORE + 1), 0, IS_MATE_SCORE + 1}
\* (alpha, beta) windows, alpha < beta: the scores lie on both sides of each
Windows == {<<0, 1>>}

TTEntryNULL ==
    [key |-> 0, m |-> MoveNULL, score |-> 0, depth |-> DepthNULL, flag |-> "None"]

BucketNULL == [depth_preferred |-> TTEntryNULL, always_replace |-> TTEntryNULL]

NoCall == [op |-> "none"]

----------------------------------------------------------------------------
(* TranspositionTable::store *)

\* key % SIZE, as a 1-based position in the Vec
Index(key) == (key % TableSize) + 1

\* the mate-distance rebasing of store()
StoreScore(score, ply) ==
    IF score > IS_MATE_SCORE THEN score + ply
    ELSE IF score < -IS_MATE_SCORE THEN score - ply
    ELSE score

MakeEntry(key, ply, best_move, score, flag, depth) ==
    [key |-> key, m |-> best_move, score |-> StoreScore(score, ply),
     depth |-> depth, flag |-> flag]

\* a store() that always takes the depth-preferred slot
StoreSlotAlwaysPreferred(slot, entry) == [slot EXCEPT !.depth_preferred = entry]

StoreSlotStrict(slot, entry) ==
    IF entry.depth > slot.depth_preferred.depth
    THEN [slot EXCEPT !.depth_preferred = entry]
    ELSE [slot EXCEPT !.always_replace = entry]

\* the replacement policy of store()
StoreSlot(slot, entry) ==
    IF entry.depth >= slot.depth_preferred.depth
    THEN [slot EXCEPT !.depth_preferred = entry]
    ELSE [slot EXCEPT !.always_replace = entry]

----------------------------------------------------------------------------
(* TranspositionTable::probe *)

Cutoff(v) == [kind |-> "Cutoff", v |-> v]
BestMove(m) == [kind |-> "BestMove", v |-> m]
Nothing == [kind |-> "Nothing", v |-> 0]
\* the process aborts in macros::inconceivable!()
Inconceivable == [kind |-> "Inconceivable", v |-> 0]

\* the mate-distance rebasing of probe()
ProbeScore(score, ply) ==
    IF score > IS_MATE_SCORE THEN score - ply
    ELSE IF score < -IS_MATE_SCORE THEN score + ply
    ELSE score

\* the entry probe() reads when one of the two keys matches
SelectEntry(slot, key) ==
    IF slot.depth_preferred.key = key THEN slot.depth_preferred
    ELSE slot.always_replace

Matches(slot, key) ==
    slot.depth_preferred.key = key \/ slot.always_replace.key = key

\* the HFlag::None arm is unsafe { inconceivable!() }: the process aborts (a
\* checked build) or the behaviour is undefined and the compiler may have
\* merged the arm with any other path of the function
NoneOutcomes(entry, score, alpha, beta) ==
    {Inconceivable, Cutoff(alpha), Cutoff(beta), Cutoff(score),
     BestMove(entry.m), Nothing}

\* what probe() returns once it has chosen `entry`: the set of possible results
Resolve(entry, ply, alpha, beta, depth) ==
    IF entry.depth >= depth
    THEN LET score == ProbeScore(entry.score, ply)
         IN CASE entry.flag = "None" -> NoneOutcomes(entry, score, alpha, beta)
              [] entry.flag = "Alpha" ->
                    IF score <= alpha THEN {Cutoff(alpha)} ELSE {BestMove(entry.m)}
              [] entry.flag = "Beta" ->
                    IF score >= beta THEN {Cutoff(beta)} ELSE {BestMove(entry.m)}
              [] entry.flag = "Exact" -> {Cutoff(score)}
    ELSE {BestMove(entry.m)}

ProbeOutcomes(slot, key, ply, alpha, beta, depth) ==
    IF Matches(slot, key)
    THEN Resolve(SelectEntry(slot, key), ply, alpha, beta, depth)
    ELSE {Nothing}

----------------------------------------------------------------------------
(* Sequential use of the table *)

\* the process has aborted in the last call
Aborted == lastProbe # NoCall /\ lastProbe.res = Inconceivable

\* TranspositionTable::clear
Clear ==
    /\ ~Aborted
    /\ table' = [i \in 1..TableSize |-> BucketNULL]
    /\ stored' = {}
    /\ nstores' = 0
    /\ lastStore' = NoCall
    /\ lastProbe' = NoCall

\* TranspositionTable::clear_for_search
ClearForSearch ==
    /\ ~Aborted
    /\ table' = IF Len(table) = 0 THEN [i \in 1..TableSize |-> BucketNULL] ELSE table
    /\ lastStore' = NoCall
    /\ lastProbe' = NoCall
    /\ UNCHANGED <<stored, nstores>>

\* TranspositionTable::store; on an empty Vec self.table[index] panics
Store(key, ply, best_move, score, flag, depth) ==
    /\ ~Aborted
    /\ Len(table) > 0
    /\ nstores < MaxStores
    /\ LET entry == MakeEntry(key, ply, best_move, score, flag, depth)
       IN table' = [table EXCEPT ![Index(key)] = StoreSlot(@, entry)]
    /\ stored' = stored \cup {key}
    /\ nstores' = nstores + 1
    /\ lastStore' = [op |-> "store", key |-> key, ply |-> ply, m |-> best_move,
                     score |-> score, flag |-> flag, depth |-> depth]
    /\ lastProbe' = NoCall

\* TranspositionTable::probe; `after` is the store() call made just before, if any
Probe(key, ply, alpha, beta, depth) ==
    /\ ~Aborted
    /\ Len(table) > 0
    /\ \E r \in ProbeOutcomes(table[Index(key)], key, ply, alpha, beta, depth) :
          lastProbe' = [op |-> "probe", key |-> key, ply |-> ply, alpha |-> alpha,
                        beta |-> beta, depth |-> depth, res |-> r,
                        after |-> lastStore]
    /\ lastStore' = NoCall
    /\ UNCHANGED <<table, stored, nstores>>

StoreAny ==
    \E key \in Keys, ply \in Plies, m \in Moves, score \in Scores,
       flag \in StoreFlags, depth \in Depths :
        Store(key, ply, m, score, flag, depth)

ProbeAny ==
    \E key \in Keys, ply \in Plies, w \in Windows, depth \in Depths :
        Probe(key, ply, w[1], w[2], depth)

\* TranspositionTable::new
InitTT ==
    /\ table = << >>
    /\ stored = {}
    /\ nstores = 0
    /\ lastStore = NoCall
    /\ lastProbe = NoCall

InitConcIdle ==
    /\ wk = << >>
    /\ calls = {}

InitBoardIdle ==
    /\ board = << >>
    /\ fen = "none"
    /\ move_list = "none"
    /\ attacked = "none"

\* no move has been applied
NotApplied == [stage |-> "none", before |-> << >>, index |-> 0]

InitHistIdle ==
    /\ applied = NotApplied
    /\ position = "none"
    /\ history_table = "none"
    /\ counter_move_table = "none"
    /\ followup_history = "none"
    /\ killer_move_table = "none"
    /\ lastop = "none"

Init == InitTT /\ InitConcIdle /\ InitBoardIdle /\ InitHistIdle

Next ==
    \/ Clear /\ UNCHANGED <<concVars, fenVars, histVars, undoVars>>
    \/ ClearForSearch /\ UNCHANGED <<concVars, fenVars, histVars, undoVars>>
    \/ StoreAny /\ UNCHANGED <<concVars, fenVars, histVars, undoVars>>
    \/ ProbeAny /\ UNCHANGED <<concVars, fenVars, histVars, undoVars>>

Spec == Init /\ [][Next]_vars

----------------------------------------------------------------------------
(* Properties of the sequential table, checked under Spec *)

\* the bucket the last probe() read (probe() leaves the table unchanged)
ProbedSlot == table[Index(lastProbe.key)]

\* the entry the store() call `c` wrote
EntryOf(c) == MakeEntry(c.key, c.ply, c.m, c.score, c.flag, c.depth)

\* the last call was a probe() made right after a store() of the same key at a
\* depth that suffices for the probe
ProbeAfterStore ==
    /\ lastProbe # NoCall
    /\ lastProbe.after # NoCall
    /\ lastProbe.after.key = lastProbe.key
    /\ lastProbe.depth <= lastProbe.after.depth

\* C1: a probe for a key that was never stored since the table was filled
\* with NULL buckets returns Nothing, whatever the key (0 included).
C1_NeverStoredKeyMisses ==
    (lastProbe # NoCall /\ lastProbe.key \notin stored)
        => lastProbe.res = Nothing

\* C2: a probe of key K made right after store(K, .., D), at a depth <= D, is
\* resolved from the entry that store wrote (its flag, score and move), not
\* from an older entry of K held in the other slot.
C2_ProbeServesLatestStore ==
    ProbeAfterStore =>
        lastProbe.res \in Resolve(EntryOf(lastProbe.after), lastProbe.ply,
                                  lastProbe.alpha, lastProbe.beta, lastProbe.depth)

\* C3: a store shallower than the bucket's depth-preferred entry leaves that
\* entry unchanged and overwrites only the always-replace entry; a store at
\* an equal or greater depth replaces the depth-preferred entry. No other
\* bucket changes.
C3_StoreStep ==
    lastStore' # NoCall =>
        LET c == lastStore'
            i == Index(c.key)
            old == table[i]
            new == table'[i]
            e == [key |-> c.key, m |-> c.m,
                  score |-> IF c.score > IS_MATE_SCORE THEN c.score + c.ply
                            ELSE IF c.score < -IS_MATE_SCORE THEN c.score - c.ply
                            ELSE c.score,
                  depth |-> c.depth, flag |-> c.flag]
        IN /\ c.depth < old.depth_preferred.depth =>
                /\ new.depth_preferred = old.depth_preferred
                /\ new.always_replace = e
           /\ c.depth >= old.depth_preferred.depth =>
                /\ new.depth_preferred = e
                /\ new.always_replace = old.always_replace
           /\ \A j \in 1..TableSize : j # i => table'[j] = table[j]

C3_DepthPreferredPolicy == [][C3_StoreStep]_vars

\* C3's cases have happened: the last store went to the always-replace slot
\* beside a deeper depth-preferred entry; the last store replaced a written
\* depth-preferred entry of equal depth.
C3_Witness ==
    /\ lastStore # NoCall
    /\ nstores = 2
    /\ LET slot == table[Index(lastStore.key)]
       IN /\ slot.always_replace.key = lastStore.key
          /\ slot.always_replace.flag = lastStore.flag
          /\ slot.always_replace.depth = lastStore.depth
          /\ slot.depth_preferred.flag # "None"
          /\ lastStore.depth < slot.depth_preferred.depth

\* C4: when every store passes Alpha, Beta or Exact, no probe matches by key
\* an entry of sufficient depth whose bound kind is None.
C4_NoneBranchNeverReached ==
    lastProbe # NoCall =>
        ~ /\ Matches(ProbedSlot, lastProbe.key)
          /\ SelectEntry(ProbedSlot, lastProbe.key).depth >= lastProbe.depth
          /\ SelectEntry(ProbedSlot, lastProbe.key).flag = "None"

\* the score C6 expects at ply p2 for a score s stored at ply p1
C6_Expected(s, p1, p2) ==
    IF s > IS_MATE_SCORE THEN s + p1 - p2
    ELSE IF s < -IS_MATE_SCORE THEN s - p1 + p2
    ELSE s

\* C6: store(K, p1, m, s, Exact, D) followed by probe(K, p2, .., d <= D)
\* returns Cutoff(s + p1 - p2) above the mate threshold, Cutoff(s - p1 + p2)
\* below the negated threshold and Cutoff(s) otherwise.
C6_MateRebaseRoundTrip ==
    (ProbeAfterStore /\ lastProbe.after.flag = "Exact")
        => lastProbe.res =
              Cutoff(C6_Expected(lastProbe.after.score, lastProbe.after.ply,
                                 lastProbe.ply))

\* C7: for a probe whose key matches an entry (m, s after de-rebasing, f): a
\* shallower entry gives BestMove(m); otherwise Exact gives Cutoff(s), Beta
\* gives Cutoff(beta) exactly when s >= beta, Alpha gives Cutoff(alpha)
\* exactly when s <= alpha, and every remaining case gives BestMove(m).
C7_ProbeResolution ==
    (lastProbe # NoCall /\ Matches(ProbedSlot, lastProbe.key)) =>
        LET e == SelectEntry(ProbedSlot, lastProbe.key)
            s == IF e.score > IS_MATE_SCORE THEN e.score - lastProbe.ply
                 ELSE IF e.score < -IS_MATE_SCORE THEN e.score + lastProbe.ply
                 ELSE e.score
        IN lastProbe.res =
             IF e.depth < lastProbe.depth THEN BestMove(e.m)
             ELSE IF e.flag = "Exact" THEN Cutoff(s)
             ELSE IF e.flag = "Beta" /\ s >= lastProbe.beta THEN Cutoff(lastProbe.beta)
             ELSE IF e.flag = "Alpha" /\ s <= lastProbe.alpha THEN Cutoff(lastProbe.alpha)
             ELSE BestMove(e.m)

----------------------------------------------------------------------------
(* Several workers sharing one table without locking.  store() assigns a   *)
(* whole TTEntry to the chosen slot; without synchronisation the fields of *)
(* that assignment reach memory one after another, and the calls of the    *)
(* other workers fall in between.                                          *)

\* search workers sharing the table
NWorkers == 2
\* store() calls begun in one run
MaxConcStores == 2

Workers == 1..NWorkers
\* two keys other than 0 that share a bucket
ConcKeys == {1, 1 + TableSize}
\* the order in which the fields of an entry are written
EntryFields == <<"key", "m", "score", "depth", "flag">>

Idle == [pc |-> "idle"]

\* store(), up to the choice of the slot (the read of depth_preferred.depth)
StoreBegin(w, key, ply, best_move, score, flag, depth) ==
    /\ ~Aborted
    /\ wk[w] = Idle
    /\ nstores < MaxConcStores
    /\ LET entry == MakeEntry(key, ply, best_move, score, flag, depth)
           slot == table[Index(key)]
           which == IF StoreSlot(slot, entry).depth_preferred = entry
                        /\ StoreSlot(slot, entry).always_replace = slot.always_replace
                    THEN "depth_preferred" ELSE "always_replace"
       IN /\ wk' = [wk EXCEPT ![w] = [pc |-> "write", entry |-> entry,
                                      index |-> Index(key), which |-> which,
                                      next |-> 1]]
          /\ calls' = calls \cup {entry}
    /\ nstores' = nstores + 1
    /\ lastProbe' = NoCall
    /\ UNCHANGED <<table, stored, lastStore>>

\* store(), the write of the next field of the entry
StoreWrite(w) ==
    /\ ~Aborted
    /\ wk[w].pc = "write"
    /\ LET f == EntryFields[wk[w].next]
       IN table' = [table EXCEPT ![wk[w].index][wk[w].which][f] = wk[w].entry[f]]
    /\ wk' = [wk EXCEPT ![w] = IF wk[w].next = Len(EntryFields) THEN Idle
                                ELSE [wk[w] EXCEPT !.next = @ + 1]]
    /\ lastProbe' = NoCall
    /\ UNCHANGED <<calls, nstores, stored, lastStore>>

\* probe() by an idle worker
ProbeShared(w, key, ply, alpha, beta, depth) ==
    /\ ~Aborted
    /\ wk[w] = Idle
    /\ \E r \in ProbeOutcomes(table[Index(key)], key, ply, alpha, beta, depth) :
          lastProbe' = [op |-> "probe", key |-> key, ply |-> ply, alpha |-> alpha,
                        beta |-> beta, depth |-> depth, res |-> r, after |-> NoCall]
    /\ UNCHANGED <<table, wk, calls, nstores, stored, lastStore>>

StoreBeginAny ==
    \E w \in Workers, key \in ConcKeys, m \in Moves, score \in {0, IS_MATE_SCORE + 1},
       flag \in StoreFlags, depth \in Depths :
        StoreBegin(w, key, 0, m, score, flag, depth)

StoreWriteAny == \E w \in Workers : StoreWrite(w)

ProbeSharedAny ==
    \E w \in Workers, key \in ConcKeys, win \in Windows, depth \in Depths :
        ProbeShared(w, key, 0, win[1], win[2], depth)

\* the table has been cleared and every worker is between two calls
InitConc ==
    /\ table = [i \in 1..TableSize |-> BucketNULL]
    /\ stored = {}
    /\ nstores = 0
    /\ lastStore = NoCall
    /\ lastProbe = NoCall
    /\ wk = [w \in Workers |-> Idle]
    /\ calls = {}
    /\ InitBoardIdle
    /\ InitHistIdle

NextConc ==
    \/ StoreBeginAny /\ UNCHANGED <<fenVars, histVars, undoVars>>
    \/ StoreWriteAny /\ UNCHANGED <<fenVars, histVars, undoVars>>
    \/ ProbeSharedAny /\ UNCHANGED <<fenVars, histVars, undoVars>>

SpecConc == InitConc /\ [][NextConc]_vars

----------------------------------------------------------------------------
(* The Board: constants and lookup tables *)

BOARD_N_SQUARES == 120
\* Square120::NoSquare and Square120::OffBoard
NoSquare == 99
OffBoard == 100
\* Piece, numbered as PIECE_CHAR = ".PNBRQKpnbrqk"
Empty == 0
WP == 1
WN == 2
WB == 3
WR == 4
WQ == 5
WK == 6
BP == 7
BN == 8
BB == 9
BR == 10
BQ == 11
BK == 12
\* Colour, numbered as SIDE_CHAR = "wb-"
WHITE == 0
BLACK == 1
Both == 2
\* Castling
WKCA == 1
WQCA == 2
BKCA == 4
BQCA == 8
\* capacity of one piece list, p_list: [[u8; 10]; 13]
PListLen == 10
\* Rank (Rank1 = 0 .. Rank8 = 7), as RANK_CHAR = "12345678"
Rank3 == 2
Rank6 == 5
Rank8 == 7

Squares120 == 0..(BOARD_N_SQUARES - 1)
PieceIds == WP..BK

\* lookups::filerank_to_square
filerank_to_square(file, rank) == 21 + file + rank * 10

\* lookups::SQ64_TO_SQ120
SQ64_TO_SQ120(sq64) == filerank_to_square(sq64 % 8, sq64 \div 8)

OnBoard(sq) ==
    /\ sq \in Squares120
    /\ (sq % 10) \in 1..8
    /\ (sq \div 10) \in 2..9

\* lookups::SQ120_TO_SQ64, on the playing area
SQ120_TO_SQ64(sq) == ((sq % 10) - 1) + ((sq \div 10) - 2) * 8

\* lookups::RANKS_BOARD
RANKS_BOARD(sq) == IF OnBoard(sq) THEN (sq \div 10) - 2 ELSE OffBoard

\* lookups::PIECE_COL
PIECE_COL(piece) ==
    IF piece \in WP..WK THEN WHITE ELSE IF piece \in BP..BK THEN BLACK ELSE Both

\* lookups::PIECE_BIG, PIECE_MAJ, PIECE_MIN
PIECE_BIG(piece) == piece \in {WN, WB, WR, WQ, WK, BN, BB, BR, BQ, BK}
PIECE_MAJ(piece) == piece \in {WR, WQ, BR, BQ}
PIECE_MIN(piece) == piece \in {WN, WB, BN, BB}

\* lookups::PIECE_VAL, with the values of evaluation.rs
PIECE_VAL(piece) ==
    CASE piece \in {WP, BP} -> 1000
      [] piece \in {WN, BN} -> 3250
      [] piece \in {WB, BB} -> 3330
      [] piece \in {WR, BR} -> 5500
      [] piece \in {WQ, BQ} -> 10000
      [] piece \in {WK, BK} -> 500000
      [] OTHER -> 0

\* Zobrist keys.  A u64 key is represented by the set of the constants XORed
\* into it (the constants are independent random numbers); XOR is the
\* symmetric difference and 0 the empty set.
Xor(k1, k2) == (k1 \ k2) \cup (k2 \ k1)
PIECE_KEYS(piece, sq) == {<<"piece", piece, sq>>}
SIDE_KEY == {<<"side">>}
CASTLE_KEYS(perm) == {<<"castle", perm>>}

----------------------------------------------------------------------------
(* Board::new and Board::reset *)

\* a reset that leaves piece_num as the previous position had it
ResetKeepsCounts(b) ==
    [b EXCEPT
        !.pieces = [sq \in Squares120 |-> IF OnBoard(sq) THEN Empty ELSE OffBoard],
        !.big_piece_counts = [c \in 0..1 |-> 0],
        !.major_piece_counts = [c \in 0..1 |-> 0],
        !.minor_piece_counts = [c \in 0..1 |-> 0],
        !.material = [c \in 0..1 |-> 0],
        !.pawns = [c \in 0..2 |-> {}],
        !.king_sq = [c \in 0..1 |-> NoSquare],
        !.side = Both,
        !.ep_sq = NoSquare,
        !.fifty_move_counter = 0,
        !.ply = 0,
        !.hist_ply = 0,
        !.castle_perm = 0,
        !.key = {}]

\* Board::reset; p_list and history are not touched
Reset(b) ==
    [b EXCEPT
        !.pieces = [sq \in Squares120 |-> IF OnBoard(sq) THEN Empty ELSE OffBoard],
        !.big_piece_counts = [c \in 0..1 |-> 0],
        !.major_piece_counts = [c \in 0..1 |-> 0],
        !.minor_piece_counts = [c \in 0..1 |-> 0],
        !.material = [c \in 0..1 |-> 0],
        !.pawns = [c \in 0..2 |-> {}],
        !.piece_num = [pc \in 0..12 |-> 0],
        !.king_sq = [c \in 0..1 |-> NoSquare],
        !.side = Both,
        !.ep_sq = NoSquare,
        !.fifty_move_counter = 0,
        !.ply = 0,
        !.hist_ply = 0,
        !.castle_perm = 0,
        !.key = {}]

\* Board::new; a pawn bit-set is the set of its set bits
BoardNew ==
    Reset([pieces |-> [sq \in Squares120 |-> NoSquare],
           pawns |-> [c \in 0..2 |-> {}],
           king_sq |-> [c \in 0..1 |-> NoSquare],
           side |-> 0,
           ep_sq |-> NoSquare,
           fifty_move_counter |-> 0,
           ply |-> 0,
           hist_ply |-> 0,
           key |-> {},
           piece_num |-> [pc \in 0..12 |-> 0],
           big_piece_counts |-> [c \in 0..1 |-> 0],
           major_piece_counts |-> [c \in 0..1 |-> 0],
           minor_piece_counts |-> [c \in 0..1 |-> 0],
           material |-> [c \in 0..1 |-> 0],
           castle_perm |-> 0,
           history |-> << >>,
           p_list |-> [pc \in 0..12 |-> [n \in 0..(PListLen - 1) |-> 0]]])

\* Board::generate_pos_key
generate_pos_key(b) ==
    LET occupied == {sq \in Squares120 :
                        /\ b.pieces[sq] # Empty
                        /\ b.pieces[sq] # OffBoard
                        /\ b.pieces[sq] # NoSquare}
        pieceKeys == UNION {PIECE_KEYS(b.pieces[sq], sq) : sq \in occupied}
        k1 == IF b.side = WHITE THEN Xor(pieceKeys, SIDE_KEY) ELSE pieceKeys
        k2 == IF b.ep_sq # 0 THEN Xor(k1, PIECE_KEYS(Empty, b.ep_sq)) ELSE k1
    IN Xor(k2, CASTLE_KEYS(b.castle_perm))

----------------------------------------------------------------------------
(* Board::set_from_fen.  A FEN string is a sequence of one-character       *)
(* strings.  A step that panics gives ok = FALSE.  `checks` says whether   *)
(* the build checks integer overflow (it panics) or wraps.                 *)

U8MAX == 255
U8(x) == x % (U8MAX + 1)

PieceLetters == <<"P", "N", "B", "R", "Q", "K", "p", "n", "b", "r", "q", "k">>
RunDigits == <<"1", "2", "3", "4", "5", "6", "7", "8">>
DecDigits == <<"0", "1", "2", "3", "4", "5", "6", "7", "8", "9">>
FileLetters == <<"a", "b", "c", "d", "e", "f", "g", "h">>

InSeq(c, chars) == \E i \in 1..Len(chars) : chars[i] = c
PosIn(c, chars) == CHOOSE i \in 1..Len(chars) : chars[i] = c

\* the placement of `count` copies of `piece` (lines 171-178)
RECURSIVE PlaceRun(_, _, _, _)
PlaceRun(st, piece, count, checks) ==
    IF count = 0 \/ ~st.ok THEN st
    ELSE LET prod == st.rank * 8
             sum == U8(prod) + st.file
             overflow == prod > U8MAX \/ sum > U8MAX
             sq64 == U8(sum)
         IN IF (checks /\ overflow) \/ sq64 >= 64
            THEN [st EXCEPT !.ok = FALSE]
            ELSE PlaceRun(
                    [st EXCEPT
                        !.pieces = IF piece # Empty
                                   THEN [@ EXCEPT ![SQ64_TO_SQ120(sq64)] = piece]
                                   ELSE @,
                        !.file = st.file + 1],
                    piece, count - 1, checks)

\* one character of the placement section (lines 138-179)
PlaceChar(st, c, checks) ==
    IF InSeq(c, PieceLetters) THEN PlaceRun(st, PosIn(c, PieceLetters), 1, checks)
    ELSE IF InSeq(c, RunDigits) THEN PlaceRun(st, Empty, PosIn(c, RunDigits), checks)
    ELSE IF c = "/"
         THEN IF st.rank = 0
              THEN IF checks THEN [st EXCEPT !.ok = FALSE]
                   ELSE [st EXCEPT !.rank = U8MAX, !.file = 0]
              ELSE [st EXCEPT !.rank = st.rank - 1, !.file = 0]
    ELSE [st EXCEPT !.ok = FALSE]

RECURSIVE PlaceAll(_, _, _, _)
PlaceAll(st, chars, i, checks) ==
    IF i > Len(chars) \/ ~st.ok THEN st
    ELSE PlaceAll(PlaceChar(st, chars[i], checks), chars, i + 1, checks)

\* position of the first space, 0 when there is none
FirstSpace(chars) ==
    IF InSeq(" ", chars)
    THEN CHOOSE i \in 1..Len(chars) :
            chars[i] = " " /\ \A j \in 1..(i - 1) : chars[j] # " "
    ELSE 0

\* slice::split on spaces
RECURSIVE SplitSpaces(_)
SplitSpaces(chars) ==
    LET i == FirstSpace(chars)
    IN IF i = 0 THEN <<chars>>
       ELSE <<SubSeq(chars, 1, i - 1)>> \o SplitSpaces(SubSeq(chars, i + 1, Len(chars)))

\* str::parse of an unsigned integer: an optional '+', then one or more
\* decimal digits; -1 when the text is malformed
RECURSIVE DigitsValue(_, _)
DigitsValue(chars, acc) ==
    IF chars = << >> THEN acc
    ELSE DigitsValue(Tail(chars), acc * 10 + (PosIn(Head(chars), DecDigits) - 1))

ParseUnsigned(chars) ==
    LET digits == IF chars # << >> /\ Head(chars) = "+" THEN Tail(chars) ELSE chars
    IN IF digits # << >> /\ \A i \in 1..Len(digits) : InSeq(digits[i], DecDigits)
       THEN DigitsValue(digits, 0)
       ELSE -1

Failed(b) == [ok |-> FALSE, b |-> b]
Done(b) == [ok |-> TRUE, b |-> b]

\* Board::set_side; `n` is the number of the field among `parts`
set_side(b, parts, n) ==
    IF n > Len(parts) THEN Failed(b)
    ELSE IF parts[n] = <<"w">> THEN Done([b EXCEPT !.side = WHITE])
    ELSE IF parts[n] = <<"b">> THEN Done([b EXCEPT !.side = BLACK])
    ELSE Failed(b)

OrBit(perm, bit) == IF (perm \div bit) % 2 = 1 THEN perm ELSE perm + bit

RECURSIVE CastlingLetters(_, _)
CastlingLetters(perm, chars) ==
    IF chars = << >> \/ perm < 0 THEN perm
    ELSE LET c == Head(chars)
         IN CastlingLetters(
                CASE c = "K" -> OrBit(perm, WKCA)
                  [] c = "Q" -> OrBit(perm, WQCA)
                  [] c = "k" -> OrBit(perm, BKCA)
                  [] c = "q" -> OrBit(perm, BQCA)
                  [] OTHER -> -1,
                Tail(chars))

\* Board::set_castling
set_castling(b, parts, n) ==
    IF n > Len(parts) THEN Failed(b)
    ELSE IF parts[n] = <<"-">> THEN Done([b EXCEPT !.castle_perm = 0])
    ELSE LET perm == CastlingLetters(b.castle_perm, parts[n])
         IN IF perm < 0 THEN Failed(b) ELSE Done([b EXCEPT !.castle_perm = perm])

\* Board::set_ep: byte - b'a' and byte - b'1' leave 0..7 exactly for the
\* letters a-h and the digits 1-8 (any other byte fails an assertion, or the
\* subtraction overflows)
set_ep(b, parts, n) ==
    IF n > Len(parts) THEN Failed(b)
    ELSE IF parts[n] = <<"-">> THEN Done([b EXCEPT !.ep_sq = NoSquare])
    ELSE IF Len(parts[n]) # 2 THEN Failed(b)
    ELSE IF InSeq(parts[n][1], FileLetters) /\ InSeq(parts[n][2], RunDigits)
         THEN Done([b EXCEPT !.ep_sq =
                        filerank_to_square(PosIn(parts[n][1], FileLetters) - 1,
                                           PosIn(parts[n][2], RunDigits) - 1)])
    ELSE Failed(b)

\* Board::set_halfmove: parse::<u8>
set_halfmove(b, parts, n) ==
    IF n > Len(parts) THEN Failed(b)
    ELSE LET v == ParseUnsigned(parts[n])
         IN IF v < 0 \/ v > U8MAX THEN Failed(b)
            ELSE Done([b EXCEPT !.fifty_move_counter = v])

\* Board::set_fullmove: parse::<usize>
set_fullmove(b, parts, n) ==
    IF n > Len(parts) THEN Failed(b)
    ELSE LET v == ParseUnsigned(parts[n])
         IN IF v < 0 THEN Failed(b)
            ELSE Done([b EXCEPT !.ply = v * 2 + (IF b.side = BLACK THEN 1 ELSE 0)])

\* Board::update_list_material, squares from..119; the squares that hold
\* OffBoard or Empty are passed over without any effect
RECURSIVE update_list_material(_, _)
update_list_material(b, from) ==
    LET rest == {s \in from..(BOARD_N_SQUARES - 1) :
                    b.pieces[s] # OffBoard /\ b.pieces[s] # Empty}
    IN IF rest = {} THEN Done(b)
       ELSE LET sq == CHOOSE s \in rest : \A t \in rest : s <= t
                piece == b.pieces[sq]
                colour == PIECE_COL(piece)
                pawn == piece = WP \/ piece = BP
                b1 == [b EXCEPT
                        !.big_piece_counts[colour] = @ + (IF PIECE_BIG(piece) THEN 1 ELSE 0),
                        !.minor_piece_counts[colour] = @ + (IF PIECE_MIN(piece) THEN 1 ELSE 0),
                        !.major_piece_counts[colour] = @ + (IF PIECE_MAJ(piece) THEN 1 ELSE 0),
                        !.material[colour] = @ + PIECE_VAL(piece),
                        !.p_list[piece][b.piece_num[piece]] = sq,
                        !.piece_num[piece] = @ + 1,
                        !.king_sq[colour] = IF piece = WK \/ piece = BK THEN sq ELSE @,
                        !.pawns[colour] = IF pawn THEN @ \cup {SQ120_TO_SQ64(sq)} ELSE @,
                        !.pawns[Both] = IF pawn THEN @ \cup {SQ120_TO_SQ64(sq)} ELSE @]
            IN IF b.piece_num[piece] >= PListLen THEN Failed(b)
               ELSE update_list_material(b1, sq + 1)

\* f applied to the result r of the previous step, unless that step panicked
Then(r, next) == IF r.ok THEN next ELSE r

\* Board::set_from_fen
set_from_fen(b0, chars, checks) ==
    LET b1 == Reset(b0)
        split_idx == FirstSpace(chars)
        placed == PlaceAll([rank |-> Rank8, file |-> 0, pieces |-> b1.pieces, ok |-> TRUE],
                           SubSeq(chars, 1, split_idx - 1), 1, checks)
        b2 == [b1 EXCEPT !.pieces = placed.pieces]
        parts == SplitSpaces(SubSeq(chars, split_idx + 1, Len(chars)))
        r3 == set_side(b2, parts, 1)
        r4 == Then(r3, set_castling(r3.b, parts, 2))
        r5 == Then(r4, set_ep(r4.b, parts, 3))
        r6 == Then(r5, set_halfmove(r5.b, parts, 4))
        r7 == Then(r6, set_fullmove(r6.b, parts, 5))
        r8 == Then(r7, Done([r7.b EXCEPT !.key = generate_pos_key(r7.b)]))
    IN IF split_idx = 0 THEN Failed(b1)
       ELSE IF ~placed.ok THEN Failed(b2)
       ELSE Then(r8, update_list_material(r8.b, 0))

----------------------------------------------------------------------------
(* The board descriptions passed to set_from_fen *)

\* the standard starting arrangement: rnbqkbnr/pppppppp/8/8/8/8/PPPPPPPP/RNBQKBNR
PlStart ==
    <<"r", "n", "b", "q", "k", "b", "n", "r", "/", "p", "p", "p", "p", "p", "p", "p", "p", "/", "8", "/", "8", "/", "8", "/", "8", "/", "P", "P", "P", "P", "P", "P", "P", "P", "/", "R", "N", "B", "Q", "K", "B", "N", "R">>

\* LEGALMOVES48 of main.rs: r3k2r/p1ppqpb1/bn2pnp1/3PN3/1p2P3/2N2Q1p/PPPBBPPP/R3K2R
PlKiwipete ==
    <<"r", "3", "k", "2", "r", "/", "p", "1", "p", "p", "q", "p", "b", "1", "/", "b", "n", "2", "p", "n", "p", "1", "/", "3", "P", "N", "3", "/", "1", "p", "2", "P", "3", "/", "2", "N", "2", "Q", "1", "p", "/", "P", "P", "P", "B", "B", "P", "P", "P", "/", "R", "3", "K", "2", "R">>

\* the two kings alone: 4k3/8/8/8/8/8/8/4K3
PlKings ==
    <<"4", "k", "3", "/", "8", "/", "8", "/", "8", "/", "8", "/", "8", "/", "8", "/", "4", "K", "3">>

\* pawns next to promotion and on the fifth rank: 4k3/P6p/8/3pP3/8/8/p6P/4K3
PlPawns ==
    <<"4", "k", "3", "/", "P", "6", "p", "/", "8", "/", "3", "p", "P", "3", "/", "8", "/", "8", "/", "p", "6", "P", "/", "4", "K", "3">>

\* no piece at all: 8/8/8/8/8/8/8/8
PlNoKings ==
    <<"8", "/", "8", "/", "8", "/", "8", "/", "8", "/", "8", "/", "8", "/", "8">>

\* two white kings: 4k3/8/8/8/8/8/8/K3K3
PlTwoWhiteKings ==
    <<"4", "k", "3", "/", "8", "/", "8", "/", "8", "/", "8", "/", "8", "/", "8", "/", "K", "3", "K", "3">>

\* nine files on the first rank: 4k3/8/8/8/8/8/8/4K3P
PlLongRank ==
    <<"4", "k", "3", "/", "8", "/", "8", "/", "8", "/", "8", "/", "8", "/", "8", "/", "4", "K", "3", "P">>

\* ten files on the eighth rank: 4k3PP/8/8/8/8/8/8/4K3
PlLongRank8 ==
    <<"4", "k", "3", "P", "P", "/", "8", "/", "8", "/", "8", "/", "8", "/", "8", "/", "8", "/", "4", "K", "3">>

\* seven files on the first rank: 4k3/8/8/8/8/8/8/4K2
PlShortRank ==
    <<"4", "k", "3", "/", "8", "/", "8", "/", "8", "/", "8", "/", "8", "/", "8", "/", "4", "K", "2">>

\* a character that is no piece, digit or '/': 4k3/8/8/8/8/8/8/4K2x
PlBadChar ==
    <<"4", "k", "3", "/", "8", "/", "8", "/", "8", "/", "8", "/", "8", "/", "8", "/", "4", "K", "2", "x">>

\* a ninth rank separator: 4k3/8/8/8/8/8/8/4K3/
PlNineRanks ==
    <<"4", "k", "3", "/", "8", "/", "8", "/", "8", "/", "8", "/", "8", "/", "8", "/", "4", "K", "3", "/">>

\* eleven white pawns: 4k3/PPPPPPPP/PPP5/8/8/8/8/4K3
PlElevenPawns ==
    <<"4", "k", "3", "/", "P", "P", "P", "P", "P", "P", "P", "P", "/", "P", "P", "P", "5", "/", "8", "/", "8", "/", "8", "/", "8", "/", "4", "K", "3">>

Sp == <<" ">>

Fen6(placement, side_part, castling, ep, halfmove, fullmove) ==
    placement \o Sp \o side_part \o Sp \o castling \o Sp \o ep \o Sp \o halfmove
        \o Sp \o fullmove

\* descriptions that follow the grammar of the format
GrammaticalFens ==
    {Fen6(pl, sd, <<"-">>, ep, hm, <<"1">>) :
        pl \in {PlStart, PlKings, PlPawns},
        sd \in {<<"w">>, <<"b">>},
        ep \in {<<"-">>, <<"e", "3">>, <<"e", "6">>},
        hm \in {<<"0">>, <<"1", "0", "0">>}}
    \cup {Fen6(pl, <<"w">>, <<"K", "Q", "k", "q">>, <<"-">>, <<"0">>, <<"1">>) :
            pl \in {PlStart, PlKiwipete}}

\* PlKings w - - 0 1 with one part replaced
VariedFens ==
    {Fen6(pl, <<"w">>, <<"-">>, <<"-">>, <<"0">>, <<"1">>) :
        pl \in {PlNoKings, PlTwoWhiteKings, PlLongRank, PlLongRank8, PlShortRank,
                PlBadChar, PlNineRanks, PlElevenPawns}}
    \cup {Fen6(PlKings, sd, <<"-">>, <<"-">>, <<"0">>, <<"1">>) :
            sd \in {<<"W">>, <<"w", "b">>, << >>}}
    \cup {Fen6(PlKings, <<"w">>, ca, <<"-">>, <<"0">>, <<"1">>) :
            ca \in {<<"K", "q">>, <<"K", "x">>, <<"-", "K">>, << >>}}
    \cup {Fen6(PlKings, <<"w">>, <<"-">>, ep, <<"0">>, <<"1">>) :
            ep \in {<<"a", "4">>, <<"h", "8">>, <<"i", "3">>, <<"e", "9">>,
                    <<"e", "0">>, <<"E", "3">>, <<"e">>, <<"e", "3", "3">>, << >>}}
    \cup {Fen6(PlKings, <<"w">>, <<"-">>, <<"-">>, hm, <<"1">>) :
            hm \in {<<"9", "9">>, <<"2", "5", "5">>, <<"2", "5", "6">>, <<"+", "5">>,
                    <<"-", "1">>, <<"x">>, << >>}}
    \cup {Fen6(PlKings, <<"b">>, <<"-">>, <<"-">>, <<"0">>, fm) :
            fm \in {<<"0">>, <<"1", "2">>, <<"x">>, << >>}}
    \cup {PlKings,
          PlKings \o Sp \o <<"w">>,
          PlKings \o Sp \o <<"w">> \o Sp \o <<"-">>,
          PlKings \o Sp \o <<"w">> \o Sp \o <<"-">> \o Sp \o <<"-">>,
          PlKings \o Sp \o <<"w">> \o Sp \o <<"-">> \o Sp \o <<"-">> \o Sp \o <<"0">>}

FenInputs == GrammaticalFens \cup VariedFens

----------------------------------------------------------------------------
(* Board::check_validity, one definition per group of assertions *)

\* lines 320-325: every piece-list square holds that piece in the grid
PieceListsValid(b) ==
    \A piece \in PieceIds :
        \A p_num \in 0..(b.piece_num[piece] - 1) :
            /\ p_num < PListLen
            /\ b.pieces[b.p_list[piece][p_num]] = piece

\* lines 328-344: the recount over the 64 squares of the playing area
GridCount(b, piece) ==
    Cardinality({sq64 \in 0..63 : b.pieces[SQ64_TO_SQ120(sq64)] = piece})

\* the pieces of one colour on the 64 squares
GridPiecesOf(b, colour) ==
    {sq64 \in 0..63 : PIECE_COL(b.pieces[SQ64_TO_SQ120(sq64)]) = colour}

GridBig(b, colour) ==
    Cardinality({sq64 \in GridPiecesOf(b, colour) : PIECE_BIG(b.pieces[SQ64_TO_SQ120(sq64)])})
GridMaj(b, colour) ==
    Cardinality({sq64 \in GridPiecesOf(b, colour) : PIECE_MAJ(b.pieces[SQ64_TO_SQ120(sq64)])})
GridMin(b, colour) ==
    Cardinality({sq64 \in GridPiecesOf(b, colour) : PIECE_MIN(b.pieces[SQ64_TO_SQ120(sq64)])})

RECURSIVE GridMaterial(_, _, _)
GridMaterial(b, colour, sq64) ==
    IF sq64 > 63 THEN 0
    ELSE LET piece == b.pieces[SQ64_TO_SQ120(sq64)]
         IN (IF PIECE_COL(piece) = colour THEN PIECE_VAL(piece) ELSE 0)
              + GridMaterial(b, colour, sq64 + 1)

\* lines 346-348
PieceCountsValid(b) ==
    \A piece \in PieceIds : GridCount(b, piece) = b.piece_num[piece]

\* lines 350-388: the pawn bit-sets
PawnBitsValid(b) ==
    /\ Cardinality(b.pawns[WHITE]) = b.piece_num[WP]
    /\ Cardinality(b.pawns[BLACK]) = b.piece_num[BP]
    /\ Cardinality(b.pawns[Both]) = b.piece_num[WP] + b.piece_num[BP]
    /\ \A sq64 \in b.pawns[WHITE] : b.pieces[SQ64_TO_SQ120(sq64)] = WP
    /\ \A sq64 \in b.pawns[BLACK] : b.pieces[SQ64_TO_SQ120(sq64)] = BP
    /\ \A sq64 \in b.pawns[Both] : b.pieces[SQ64_TO_SQ120(sq64)] \in {WP, BP}

\* lines 390-415: material and the big, major and minor counts
CountersValid(b) ==
    \A colour \in {WHITE, BLACK} :
        /\ GridMaterial(b, colour, 0) = b.material[colour]
        /\ GridMin(b, colour) = b.minor_piece_counts[colour]
        /\ GridMaj(b, colour) = b.major_piece_counts[colour]
        /\ GridBig(b, colour) = b.big_piece_counts[colour]

\* lines 417-418
SideValid(b) == b.side = WHITE \/ b.side = BLACK
KeyValid(b) == generate_pos_key(b) = b.key

\* lines 420-424
EpValid(b) ==
    \/ b.ep_sq = NoSquare
    \/ (RANKS_BOARD(b.ep_sq) = Rank6 /\ b.side = WHITE)
    \/ (RANKS_BOARD(b.ep_sq) = Rank3 /\ b.side = BLACK)

\* line 426
FiftyValid(b) == b.fifty_move_counter < 100

\* lines 428-435
KingSquaresValid(b) ==
    /\ b.pieces[b.king_sq[WHITE]] = WK
    /\ b.pieces[b.king_sq[BLACK]] = BK

check_validity(b) ==
    /\ PieceListsValid(b)
    /\ PieceCountsValid(b)
    /\ PawnBitsValid(b)
    /\ CountersValid(b)
    /\ SideValid(b)
    /\ KeyValid(b)
    /\ EpValid(b)
    /\ FiftyValid(b)
    /\ KingSquaresValid(b)

----------------------------------------------------------------------------
(* Board::new followed by calls of set_from_fen *)

\* the number of calls of set_from_fen on one Board
MaxFenCalls == 2

\* a build either checks integer overflow and debug assertions (the dev
\* profile) or wraps and skips them (the release profile)
InitFen ==
    /\ InitTT
    /\ InitConcIdle
    /\ board = BoardNew
    /\ \E checks \in BOOLEAN :
          fen = [state |-> "new", checks |-> checks, calls |-> 0, text |-> << >>]
    /\ move_list = [filled |-> FALSE, moves |-> << >>]
    /\ attacked = [side |-> Both, by_sq |-> << >>]
    /\ InitHistIdle

\* one call of set_from_fen; a panic ends the process
SetFromFen(chars) ==
    /\ fen.state # "panic"
    /\ fen.calls < MaxFenCalls
    /\ LET r == set_from_fen(board, chars, fen.checks)
       IN /\ board' = r.b
          /\ fen' = [fen EXCEPT !.state = IF r.ok THEN "ok" ELSE "panic",
                                !.calls = @ + 1,
                                !.text = chars]

SetFromFenAny == \E chars \in FenInputs : SetFromFen(chars)

NextFen ==
    SetFromFenAny /\ UNCHANGED <<ttVars, concVars, move_list, attacked, histVars, undoVars>>

SpecFen == InitFen /\ [][NextFen]_vars

----------------------------------------------------------------------------
(* Board::sq_attacked and Board::generate_all_moves *)

\* Rank and Square120 values used by the generator
Rank2 == 1
Rank7 == 6
B1 == filerank_to_square(1, 0)
C1 == filerank_to_square(2, 0)
D1 == filerank_to_square(3, 0)
E1 == filerank_to_square(4, 0)
F1 == filerank_to_square(5, 0)
G1 == filerank_to_square(6, 0)
B8 == filerank_to_square(1, 7)
C8 == filerank_to_square(2, 7)
D8 == filerank_to_square(3, 7)
E8 == filerank_to_square(4, 7)
F8 == filerank_to_square(5, 7)
G8 == filerank_to_square(6, 7)

\* attack::N_DIR, R_DIR, B_DIR, K_DIR, Q_DIR: offsets on the 120-square grid
N_DIR == <<-8, -19, -21, -12, 8, 19, 21, 12>>
R_DIR == <<-1, -10, 1, 10>>
B_DIR == <<-9, -11, 11, 9>>
K_DIR == <<-1, -10, 1, 10, -9, -11, 11, 9>>
Q_DIR == <<-1, -10, 1, 10, -9, -11, 11, 9>>

\* attack::IS_KNIGHT, IS_KING, IS_ROOKQUEEN, IS_BISHOPQUEEN
IS_KNIGHT(piece) == piece \in {WN, BN}
IS_KING(piece) == piece \in {WK, BK}
IS_ROOKQUEEN(piece) == piece \in {WR, WQ, BR, BQ}
IS_BISHOPQUEEN(piece) == piece \in {WB, WQ, BB, BQ}

\* attack::WHITE_JUMPERS, BLACK_JUMPERS, WHITE_SLIDERS, BLACK_SLIDERS
WHITE_JUMPERS == <<WN, WK>>
BLACK_JUMPERS == <<BN, BK>>
WHITE_SLIDERS == <<WB, WR, WQ>>
BLACK_SLIDERS == <<BB, BR, BQ>>

\* validate::square_on_board and movegen::offset_square_offboard
square_on_board(sq) == OnBoard(sq)
offset_square_offboard(t_sq) == ~OnBoard(t_sq)

\* Move::new; the flag bits are the set of the masks that are set
EP_MASK == {"EP_MASK"}
PAWN_START_MASK == {"PAWN_START_MASK"}
CASTLE_MASK == {"CASTLE_MASK"}
NoFlags == {}
MoveNew(from, to, capture, promote, flags) ==
    [from |-> from, to |-> to, capture |-> capture, promote |-> promote,
     flags |-> flags]

\* a ray walk that looks at the neighbouring square only
RayStopAtNeighbour(b, t_sq, dir) == b.pieces[t_sq]

\* the piece on which a ray walked from t_sq in direction dir stops: OffBoard
\* or the first piece met (lines 473-484 and 489-500)
RECURSIVE RayStop(_, _, _)
RayStop(b, t_sq, dir) ==
    LET piece == b.pieces[t_sq]
    IN IF piece = OffBoard \/ piece # Empty THEN piece
       ELSE RayStop(b, t_sq + dir, dir)

\* Board::sq_attacked
sq_attacked(b, sq, side) ==
    \/ /\ side = WHITE
       /\ (b.pieces[sq - 11] = WP \/ b.pieces[sq - 9] = WP)
    \/ /\ side # WHITE
       /\ (b.pieces[sq + 11] = BP \/ b.pieces[sq + 9] = BP)
    \/ \E i \in 1..Len(N_DIR) :
          LET p == b.pieces[sq + N_DIR[i]]
          IN p # OffBoard /\ IS_KNIGHT(p) /\ PIECE_COL(p) = side
    \/ \E i \in 1..Len(R_DIR) :
          LET piece == RayStop(b, sq + R_DIR[i], R_DIR[i])
          IN piece # OffBoard /\ IS_ROOKQUEEN(piece) /\ PIECE_COL(piece) = side
    \/ \E i \in 1..Len(B_DIR) :
          LET piece == RayStop(b, sq + B_DIR[i], B_DIR[i])
          IN piece # OffBoard /\ IS_BISHOPQUEEN(piece) /\ PIECE_COL(piece) = side
    \/ \E i \in 1..Len(K_DIR) :
          LET p == b.pieces[sq + K_DIR[i]]
          IN p # OffBoard /\ IS_KING(p) /\ PIECE_COL(p) = side

\* the four promotion pieces, in the order of the code
PromoPieces(SIDE) == IF SIDE = WHITE THEN <<WQ, WN, WR, WB>> ELSE <<BQ, BN, BR, BB>>
\* the two promotion ranks exchanged
PromoRankSwapped(SIDE) == IF SIDE = WHITE THEN Rank2 ELSE Rank7

\* promo_rank of add_pawn_move and add_pawn_cap_move
PromoRank(SIDE) == IF SIDE = WHITE THEN Rank7 ELSE Rank2

\* Board::add_pawn_cap_move
add_pawn_cap_move(SIDE, from, to, cap) ==
    IF RANKS_BOARD(from) = PromoRank(SIDE)
    THEN [i \in 1..4 |-> MoveNew(from, to, cap, PromoPieces(SIDE)[i], NoFlags)]
    ELSE <<MoveNew(from, to, cap, Empty, NoFlags)>>

\* Board::add_pawn_move
add_pawn_move(SIDE, from, to) ==
    IF RANKS_BOARD(from) = PromoRank(SIDE)
    THEN [i \in 1..4 |-> MoveNew(from, to, Empty, PromoPieces(SIDE)[i], NoFlags)]
    ELSE <<MoveNew(from, to, Empty, Empty, NoFlags)>>

\* Board::generate_pawn_caps; both sides compare with Colour::Black
generate_pawn_caps(b, SIDE, sq) ==
    LET left_sq == IF SIDE = WHITE THEN sq + 9 ELSE sq - 9
        right_sq == IF SIDE = WHITE THEN sq + 11 ELSE sq - 11
    IN (IF square_on_board(left_sq) /\ PIECE_COL(b.pieces[left_sq]) = BLACK
        THEN add_pawn_cap_move(SIDE, sq, left_sq, b.pieces[left_sq])
        ELSE << >>)
       \o
       (IF square_on_board(right_sq) /\ PIECE_COL(b.pieces[right_sq]) = BLACK
        THEN add_pawn_cap_move(SIDE, sq, right_sq, b.pieces[right_sq])
        ELSE << >>)

\* Board::generate_ep
generate_ep(b, SIDE, sq) ==
    LET left_sq == IF SIDE = WHITE THEN sq + 9 ELSE sq - 9
        right_sq == IF SIDE = WHITE THEN sq + 11 ELSE sq - 11
    IN (IF left_sq = b.ep_sq
        THEN <<MoveNew(sq, left_sq, Empty, Empty, EP_MASK)>> ELSE << >>)
       \o
       (IF right_sq = b.ep_sq
        THEN <<MoveNew(sq, right_sq, Empty, Empty, EP_MASK)>> ELSE << >>)

\* Board::generate_pawn_forward; both sides read pieces[sq + 10]
generate_pawn_forward(b, SIDE, sq) ==
    LET start_rank == IF SIDE = WHITE THEN Rank2 ELSE Rank7
        offset_sq == IF SIDE = WHITE THEN sq + 10 ELSE sq - 10
        double_sq == IF SIDE = WHITE THEN sq + 20 ELSE sq - 20
    IN IF b.pieces[sq + 10] = Empty
       THEN add_pawn_move(SIDE, sq, offset_sq)
            \o (IF RANKS_BOARD(sq) = start_rank /\ b.pieces[double_sq] = Empty
                THEN <<MoveNew(sq, double_sq, Empty, Empty, PAWN_START_MASK)>>
                ELSE << >>)
       ELSE << >>

\* the pawn loop of generate_all_moves, from list entry piece_num on
\* (lines 691-707)
RECURSIVE PawnMoves(_, _, _, _)
PawnMoves(b, SIDE, pawn, piece_num) ==
    IF piece_num >= b.piece_num[pawn] THEN << >>
    ELSE LET sq == b.p_list[pawn][piece_num]
         IN generate_pawn_forward(b, SIDE, sq)
            \o generate_pawn_caps(b, SIDE, sq)
            \o generate_ep(b, SIDE, sq)
            \o PawnMoves(b, SIDE, pawn, piece_num + 1)

\* jump moves that take whatever stands on the target, own pieces too
RECURSIVE JumpMovesAnyOccupant(_, _, _, _)
JumpMovesAnyOccupant(b, sq, dirs, i) ==
    IF i > Len(dirs) THEN << >>
    ELSE LET t_sq == sq + dirs[i]
         IN (IF offset_square_offboard(t_sq) THEN << >>
             ELSE <<MoveNew(sq, t_sq, b.pieces[t_sq], Empty, NoFlags)>>)
            \o JumpMovesAnyOccupant(b, sq, dirs, i + 1)

\* the moves of a knight or king on sq, from direction i on (lines 724-759);
\* self.side ^ 1 is 1 - side for the sides WHITE = 0 and BLACK = 1
RECURSIVE JumpMoves(_, _, _, _)
JumpMoves(b, sq, dirs, i) ==
    IF i > Len(dirs) THEN << >>
    ELSE LET t_sq == sq + dirs[i]
         IN (IF offset_square_offboard(t_sq) THEN << >>
             ELSE IF b.pieces[t_sq] # Empty
                  THEN IF PIECE_COL(b.pieces[t_sq]) = 1 - b.side
                       THEN <<MoveNew(sq, t_sq, b.pieces[t_sq], Empty, NoFlags)>>
                       ELSE << >>
                  ELSE <<MoveNew(sq, t_sq, Empty, Empty, NoFlags)>>)
            \o JumpMoves(b, sq, dirs, i + 1)

\* the list entries of one jumper piece (lines 720-760)
RECURSIVE JumperMoves(_, _, _)
JumperMoves(b, piece, piece_num) ==
    IF piece_num >= b.piece_num[piece] THEN << >>
    ELSE JumpMoves(b, b.p_list[piece][piece_num],
                   IF piece = WN \/ piece = BN THEN N_DIR ELSE K_DIR, 1)
         \o JumperMoves(b, piece, piece_num + 1)

\* a ray that ends after its first square
RayMovesOneStep(b, sq, slider, dir) ==
    IF offset_square_offboard(slider) THEN << >>
    ELSE IF b.pieces[slider] # Empty
         THEN IF PIECE_COL(b.pieces[slider]) = 1 - b.side
              THEN <<MoveNew(sq, slider, b.pieces[slider], Empty, NoFlags)>>
              ELSE << >>
         ELSE <<MoveNew(sq, slider, Empty, Empty, NoFlags)>>

\* one ray of a slider from sq, the walk being at `slider` (lines 782-813)
RECURSIVE RayMoves(_, _, _, _)
RayMoves(b, sq, slider, dir) ==
    IF offset_square_offboard(slider) THEN << >>
    ELSE IF b.pieces[slider] # Empty
         THEN IF PIECE_COL(b.pieces[slider]) = 1 - b.side
              THEN <<MoveNew(sq, slider, b.pieces[slider], Empty, NoFlags)>>
              ELSE << >>
         ELSE <<MoveNew(sq, slider, Empty, Empty, NoFlags)>>
              \o RayMoves(b, sq, slider + dir, dir)

\* the rays of a slider on sq, from direction i on (lines 780-814)
RECURSIVE SlideMoves(_, _, _, _)
SlideMoves(b, sq, dirs, i) ==
    IF i > Len(dirs) THEN << >>
    ELSE RayMoves(b, sq, sq + dirs[i], dirs[i]) \o SlideMoves(b, sq, dirs, i + 1)

\* the list entries of one slider piece (lines 770-815)
RECURSIVE SliderMoves(_, _, _)
SliderMoves(b, piece, piece_num) ==
    IF piece_num >= b.piece_num[piece] THEN << >>
    ELSE SlideMoves(b, b.p_list[piece][piece_num],
                    CASE piece \in {WB, BB} -> B_DIR
                      [] piece \in {WR, BR} -> R_DIR
                      [] piece \in {WQ, BQ} -> Q_DIR, 1)
         \o SliderMoves(b, piece, piece_num + 1)

\* a test of the whole mask instead of one bit
HasAnyRight(b, bit) == b.castle_perm # 0

\* castle_perm & bit != 0
HasRight(b, bit) == (b.castle_perm \div bit) % 2 = 1

\* a castle move built without its flag
CastleMoveUnflagged(from, to) == <<MoveNew(from, to, Empty, Empty, NoFlags)>>

\* Move::new(.., Move::CASTLE_MASK) as generate_castling_moves adds it
CastleMove(from, to) == <<MoveNew(from, to, Empty, Empty, CASTLE_MASK)>>

\* Board::generate_castling_moves
generate_castling_moves(b) ==
    IF b.side = WHITE
    THEN (IF /\ HasRight(b, WKCA)
             /\ b.pieces[F1] = Empty
             /\ b.pieces[G1] = Empty
             /\ ~sq_attacked(b, E1, BLACK)
             /\ ~sq_attacked(b, F1, BLACK)
          THEN CastleMove(E1, G1) ELSE << >>)
         \o
         (IF /\ HasRight(b, WQCA)
             /\ b.pieces[D1] = Empty
             /\ b.pieces[C1] = Empty
             /\ b.pieces[B1] = Empty
             /\ ~sq_attacked(b, E1, BLACK)
             /\ ~sq_attacked(b, D1, BLACK)
          THEN CastleMove(E1, C1) ELSE << >>)
    ELSE (IF /\ HasRight(b, BKCA)
             /\ b.pieces[F8] = Empty
             /\ b.pieces[G8] = Empty
             /\ ~sq_attacked(b, E8, WHITE)
             /\ ~sq_attacked(b, F8, WHITE)
          THEN CastleMove(E8, G8) ELSE << >>)
         \o
         (IF /\ HasRight(b, BQCA)
             /\ b.pieces[D8] = Empty
             /\ b.pieces[C8] = Empty
             /\ b.pieces[B8] = Empty
             /\ ~sq_attacked(b, E8, WHITE)
             /\ ~sq_attacked(b, D8, WHITE)
          THEN CastleMove(E8, C8) ELSE << >>)

\* Board::generate_all_moves: the MoveList it fills, in order
generate_all_moves(b) ==
    LET jumpers == IF b.side = WHITE THEN WHITE_JUMPERS ELSE BLACK_JUMPERS
        sliders == IF b.side = WHITE THEN WHITE_SLIDERS ELSE BLACK_SLIDERS
    IN (IF b.side = WHITE THEN PawnMoves(b, WHITE, WP, 0)
                          ELSE PawnMoves(b, BLACK, BP, 0))
       \o JumperMoves(b, jumpers[1], 0)
       \o JumperMoves(b, jumpers[2], 0)
       \o SliderMoves(b, sliders[1], 0)
       \o SliderMoves(b, sliders[2], 0)
       \o SliderMoves(b, sliders[3], 0)
       \o generate_castling_moves(b)

----------------------------------------------------------------------------
(* main: Board::new, set_from_fen, then generate_all_moves; and            *)
(* sq_attack_by_side, which asks sq_attacked for each of the 64 squares    *)

\* the positions given to the generator and the attack query
MoveFens ==
    {
     \* the standard starting position: rnbqkbnr/pppppppp/8/8/8/8/PPPPPPPP/RNBQKBNR w KQkq - 0 1
     <<"r", "n", "b", "q", "k", "b", "n", "r", "/", "p", "p", "p", "p", "p", "p", "p", "p", "/", "8", "/", "8", "/", "8", "/", "8", "/", "P", "P", "P", "P", "P", "P", "P", "P", "/", "R", "N", "B", "Q", "K", "B", "N", "R", " ", "w", " ", "K", "Q", "k", "q", " ", "-", " ", "0", " ", "1">>,
     \* the standard arrangement, black to move: rnbqkbnr/pppppppp/8/8/8/8/PPPPPPPP/RNBQKBNR b KQkq - 0 1
     <<"r", "n", "b", "q", "k", "b", "n", "r", "/", "p", "p", "p", "p", "p", "p", "p", "p", "/", "8", "/", "8", "/", "8", "/", "8", "/", "P", "P", "P", "P", "P", "P", "P", "P", "/", "R", "N", "B", "Q", "K", "B", "N", "R", " ", "b", " ", "K", "Q", "k", "q", " ", "-", " ", "0", " ", "1">>,
     \* LEGALMOVES48 of main.rs: r3k2r/p1ppqpb1/bn2pnp1/3PN3/1p2P3/2N2Q1p/PPPBBPPP/R3K2R w KQkq - 0 1
     <<"r", "3", "k", "2", "r", "/", "p", "1", "p", "p", "q", "p", "b", "1", "/", "b", "n", "2", "p", "n", "p", "1", "/", "3", "P", "N", "3", "/", "1", "p", "2", "P", "3", "/", "2", "N", "2", "Q", "1", "p", "/", "P", "P", "P", "B", "B", "P", "P", "P", "/", "R", "3", "K", "2", "R", " ", "w", " ", "K", "Q", "k", "q", " ", "-", " ", "0", " ", "1">>,
     \* the same arrangement, black to move: r3k2r/p1ppqpb1/bn2pnp1/3PN3/1p2P3/2N2Q1p/PPPBBPPP/R3K2R b KQkq - 0 1
     <<"r", "3", "k", "2", "r", "/", "p", "1", "p", "p", "q", "p", "b", "1", "/", "b", "n", "2", "p", "n", "p", "1", "/", "3", "P", "N", "3", "/", "1", "p", "2", "P", "3", "/", "2", "N", "2", "Q", "1", "p", "/", "P", "P", "P", "B", "B", "P", "P", "P", "/", "R", "3", "K", "2", "R", " ", "b", " ", "K", "Q", "k", "q", " ", "-", " ", "0", " ", "1">>,
     \* pawns facing each other diagonally: 4k3/8/8/3p4/4P3/8/8/4K3 w - - 0 1
     <<"4", "k", "3", "/", "8", "/", "8", "/", "3", "p", "4", "/", "4", "P", "3", "/", "8", "/", "8", "/", "4", "K", "3", " ", "w", " ", "-", " ", "-", " ", "0", " ", "1">>,
     \* 4k3/8/8/3p4/4P3/8/8/4K3 b - - 0 1
     <<"4", "k", "3", "/", "8", "/", "8", "/", "3", "p", "4", "/", "4", "P", "3", "/", "8", "/", "8", "/", "4", "K", "3", " ", "b", " ", "-", " ", "-", " ", "0", " ", "1">>,
     \* a pawn with an opposing and an own piece on its diagonals: 4k3/8/8/8/8/3n1N2/4P3/4K3 w - - 0 1
     <<"4", "k", "3", "/", "8", "/", "8", "/", "8", "/", "8", "/", "3", "n", "1", "N", "2", "/", "4", "P", "3", "/", "4", "K", "3", " ", "w", " ", "-", " ", "-", " ", "0", " ", "1">>,
     \* 4k3/4p3/3n1N2/8/8/8/8/4K3 b - - 0 1
     <<"4", "k", "3", "/", "4", "p", "3", "/", "3", "n", "1", "N", "2", "/", "8", "/", "8", "/", "8", "/", "8", "/", "4", "K", "3", " ", "b", " ", "-", " ", "-", " ", "0", " ", "1">>,
     \* a blocked single push and a blocked double push: 4k3/8/8/8/1n6/4n3/1P2P3/4K3 w - - 0 1
     <<"4", "k", "3", "/", "8", "/", "8", "/", "8", "/", "1", "n", "6", "/", "4", "n", "3", "/", "1", "P", "2", "P", "3", "/", "4", "K", "3", " ", "w", " ", "-", " ", "-", " ", "0", " ", "1">>,
     \* 4k3/1p2p3/4N3/1N6/8/8/8/4K3 b - - 0 1
     <<"4", "k", "3", "/", "1", "p", "2", "p", "3", "/", "4", "N", "3", "/", "1", "N", "6", "/", "8", "/", "8", "/", "8", "/", "4", "K", "3", " ", "b", " ", "-", " ", "-", " ", "0", " ", "1">>,
     \* black pawns with the square behind them occupied: 4k3/8/3N4/3p4/8/8/8/4K3 b - - 0 1
     <<"4", "k", "3", "/", "8", "/", "3", "N", "4", "/", "3", "p", "4", "/", "8", "/", "8", "/", "8", "/", "4", "K", "3", " ", "b", " ", "-", " ", "-", " ", "0", " ", "1">>,
     \* pawns on the edge files and next to the far border, no en-passant target: 4k3/7P/8/P7/8/8/8/4K3 w - - 0 1
     <<"4", "k", "3", "/", "7", "P", "/", "8", "/", "P", "7", "/", "8", "/", "8", "/", "8", "/", "4", "K", "3", " ", "w", " ", "-", " ", "-", " ", "0", " ", "1">>,
     \* 4k3/8/8/8/p7/8/7p/4K3 b - - 0 1
     <<"4", "k", "3", "/", "8", "/", "8", "/", "8", "/", "p", "7", "/", "8", "/", "7", "p", "/", "4", "K", "3", " ", "b", " ", "-", " ", "-", " ", "0", " ", "1">>,
     \* an en-passant target beside a pawn: 4k3/8/8/3pP3/8/8/8/4K3 w - d6 0 1
     <<"4", "k", "3", "/", "8", "/", "8", "/", "3", "p", "P", "3", "/", "8", "/", "8", "/", "8", "/", "4", "K", "3", " ", "w", " ", "-", " ", "d", "6", " ", "0", " ", "1">>,
     \* 4k3/8/8/8/3pP3/8/8/4K3 b - e3 0 1
     <<"4", "k", "3", "/", "8", "/", "8", "/", "8", "/", "3", "p", "P", "3", "/", "8", "/", "8", "/", "4", "K", "3", " ", "b", " ", "-", " ", "e", "3", " ", "0", " ", "1">>,
     \* a pawn before promotion with both captures available: n1n1k3/1P6/8/8/8/8/8/4K3 w - - 0 1
     <<"n", "1", "n", "1", "k", "3", "/", "1", "P", "6", "/", "8", "/", "8", "/", "8", "/", "8", "/", "8", "/", "4", "K", "3", " ", "w", " ", "-", " ", "-", " ", "0", " ", "1">>,
     \* 4k3/8/8/8/8/8/1p6/N1N1K3 b - - 0 1
     <<"4", "k", "3", "/", "8", "/", "8", "/", "8", "/", "8", "/", "8", "/", "1", "p", "6", "/", "N", "1", "N", "1", "K", "3", " ", "b", " ", "-", " ", "-", " ", "0", " ", "1">>,
     \* a black pawn before promotion, the square behind it occupied: 4k3/8/8/8/8/1N6/1p6/4K3 b - - 0 1
     <<"4", "k", "3", "/", "8", "/", "8", "/", "8", "/", "8", "/", "1", "N", "6", "/", "1", "p", "6", "/", "4", "K", "3", " ", "b", " ", "-", " ", "-", " ", "0", " ", "1">>,
     \* kings and rooks on their squares, all rights: r3k2r/8/8/8/8/8/8/R3K2R w KQkq - 0 1
     <<"r", "3", "k", "2", "r", "/", "8", "/", "8", "/", "8", "/", "8", "/", "8", "/", "8", "/", "R", "3", "K", "2", "R", " ", "w", " ", "K", "Q", "k", "q", " ", "-", " ", "0", " ", "1">>,
     \* r3k2r/8/8/8/8/8/8/R3K2R b KQkq - 0 1
     <<"r", "3", "k", "2", "r", "/", "8", "/", "8", "/", "8", "/", "8", "/", "8", "/", "8", "/", "R", "3", "K", "2", "R", " ", "b", " ", "K", "Q", "k", "q", " ", "-", " ", "0", " ", "1">>,
     \* some rights missing: r3k2r/8/8/8/8/8/8/R3K2R w Kq - 0 1
     <<"r", "3", "k", "2", "r", "/", "8", "/", "8", "/", "8", "/", "8", "/", "8", "/", "8", "/", "R", "3", "K", "2", "R", " ", "w", " ", "K", "q", " ", "-", " ", "0", " ", "1">>,
     \* r3k2r/8/8/8/8/8/8/R3K2R b Kq - 0 1
     <<"r", "3", "k", "2", "r", "/", "8", "/", "8", "/", "8", "/", "8", "/", "8", "/", "8", "/", "R", "3", "K", "2", "R", " ", "b", " ", "K", "q", " ", "-", " ", "0", " ", "1">>,
     \* r3k2r/8/8/8/8/8/8/R3K2R w - - 0 1
     <<"r", "3", "k", "2", "r", "/", "8", "/", "8", "/", "8", "/", "8", "/", "8", "/", "8", "/", "R", "3", "K", "2", "R", " ", "w", " ", "-", " ", "-", " ", "0", " ", "1">>,
     \* squares between king and rook occupied: rn2k1nr/8/8/8/8/8/8/RN2K1NR w KQkq - 0 1
     <<"r", "n", "2", "k", "1", "n", "r", "/", "8", "/", "8", "/", "8", "/", "8", "/", "8", "/", "8", "/", "R", "N", "2", "K", "1", "N", "R", " ", "w", " ", "K", "Q", "k", "q", " ", "-", " ", "0", " ", "1">>,
     \* rn2k1nr/8/8/8/8/8/8/RN2K1NR b KQkq - 0 1
     <<"r", "n", "2", "k", "1", "n", "r", "/", "8", "/", "8", "/", "8", "/", "8", "/", "8", "/", "8", "/", "R", "N", "2", "K", "1", "N", "R", " ", "b", " ", "K", "Q", "k", "q", " ", "-", " ", "0", " ", "1">>,
     \* r2qkb1r/8/8/8/8/8/8/R2QKB1R w KQkq - 0 1
     <<"r", "2", "q", "k", "b", "1", "r", "/", "8", "/", "8", "/", "8", "/", "8", "/", "8", "/", "8", "/", "R", "2", "Q", "K", "B", "1", "R", " ", "w", " ", "K", "Q", "k", "q", " ", "-", " ", "0", " ", "1">>,
     \* the transit square attacked: 4k3/8/8/8/8/8/5r2/R3K2R w KQ - 0 1
     <<"4", "k", "3", "/", "8", "/", "8", "/", "8", "/", "8", "/", "8", "/", "5", "r", "2", "/", "R", "3", "K", "2", "R", " ", "w", " ", "K", "Q", " ", "-", " ", "0", " ", "1">>,
     \* r3k2r/8/8/8/8/8/8/3RK3 b kq - 0 1
     <<"r", "3", "k", "2", "r", "/", "8", "/", "8", "/", "8", "/", "8", "/", "8", "/", "8", "/", "3", "R", "K", "3", " ", "b", " ", "k", "q", " ", "-", " ", "0", " ", "1">>,
     \* the king attacked: 4k3/8/8/8/4r3/8/8/R3K2R w KQ - 0 1
     <<"4", "k", "3", "/", "8", "/", "8", "/", "8", "/", "4", "r", "3", "/", "8", "/", "8", "/", "R", "3", "K", "2", "R", " ", "w", " ", "K", "Q", " ", "-", " ", "0", " ", "1">>,
     \* only the destination or the rook's neighbour attacked: 4k3/8/8/8/8/8/1r4r1/R3K2R w KQ - 0 1
     <<"4", "k", "3", "/", "8", "/", "8", "/", "8", "/", "8", "/", "8", "/", "1", "r", "4", "r", "1", "/", "R", "3", "K", "2", "R", " ", "w", " ", "K", "Q", " ", "-", " ", "0", " ", "1">>,
     \* attacks by pawn, bishop and knight: r3k2r/4P3/8/8/8/8/8/4K3 b kq - 0 1
     <<"r", "3", "k", "2", "r", "/", "4", "P", "3", "/", "8", "/", "8", "/", "8", "/", "8", "/", "8", "/", "4", "K", "3", " ", "b", " ", "k", "q", " ", "-", " ", "0", " ", "1">>,
     \* 4k3/8/8/8/8/7b/8/R3K2R w KQ - 0 1
     <<"4", "k", "3", "/", "8", "/", "8", "/", "8", "/", "8", "/", "7", "b", "/", "8", "/", "R", "3", "K", "2", "R", " ", "w", " ", "K", "Q", " ", "-", " ", "0", " ", "1">>,
     \* 4k3/8/8/8/8/2n5/8/R3K2R w KQ - 0 1
     <<"4", "k", "3", "/", "8", "/", "8", "/", "8", "/", "8", "/", "2", "n", "5", "/", "8", "/", "R", "3", "K", "2", "R", " ", "w", " ", "K", "Q", " ", "-", " ", "0", " ", "1">>,
     \* an en-passant target on the wrong rank (accepted by set_from_fen): 4k3/8/8/8/8/8/8/4K3 w - e3 0 1
     <<"4", "k", "3", "/", "8", "/", "8", "/", "8", "/", "8", "/", "8", "/", "8", "/", "4", "K", "3", " ", "w", " ", "-", " ", "e", "3", " ", "0", " ", "1">>
    }

Sides == {WHITE, BLACK}
BoardSquares == {sq \in Squares120 : OnBoard(sq)}

InitMoves == InitFen

\* b.set_from_fen(..) on the new Board
SetPosition ==
    /\ fen.state = "new"
    /\ \E chars \in MoveFens : SetFromFen(chars)
    /\ UNCHANGED <<move_list, attacked>>

\* the debug assertion on check_validity that generate_all_moves and
\* sq_attacked begin with
DebugAssertFails == fen.checks /\ ~check_validity(board)

\* b.generate_all_moves(&mut move_list) with a new MoveList
GenerateAllMoves ==
    /\ fen.state = "ok"
    /\ ~move_list.filled
    /\ IF DebugAssertFails
       THEN /\ fen' = [fen EXCEPT !.state = "panic"]
            /\ UNCHANGED move_list
       ELSE /\ move_list' = [filled |-> TRUE, moves |-> generate_all_moves(board)]
            /\ UNCHANGED fen
    /\ UNCHANGED <<board, attacked>>

\* main::sq_attack_by_side(side, &b): the answer for each square
SqAttackBySide(side) ==
    /\ fen.state = "ok"
    /\ IF DebugAssertFails
       THEN /\ fen' = [fen EXCEPT !.state = "panic"]
            /\ UNCHANGED attacked
       ELSE /\ attacked' = [side |-> side,
                            by_sq |-> [sq \in BoardSquares |-> sq_attacked(board, sq, side)]]
            /\ UNCHANGED fen
    /\ UNCHANGED <<board, move_list>>

SqAttackBySideAny == \E side \in Sides : SqAttackBySide(side)

NextMoves ==
    \/ SetPosition /\ UNCHANGED <<ttVars, concVars, histVars, undoVars>>
    \/ GenerateAllMoves /\ UNCHANGED <<ttVars, concVars, histVars, undoVars>>
    \/ SqAttackBySideAny /\ UNCHANGED <<ttVars, concVars, histVars, undoVars>>

SpecMoves == InitMoves /\ [][NextMoves]_vars

----------------------------------------------------------------------------
(* Claims about set_from_fen *)

\* the call returned and the grid holds exactly one king of each side
AcceptedOneKingEach ==
    /\ fen.state = "ok"
    /\ GridCount(board, WK) = 1
    /\ GridCount(board, BK) = 1

\* C8: every board description that set_from_fen accepts and that places
\* exactly one king per side, on a new Board or on a Board that held another
\* position, leaves a state that passes the cross-index checks of
\* check_validity: piece lists against the grid, grid counts against
\* piece_num, the pawn bit-sets, material and the big, major and minor
\* counts, the side, the key and the king squares.
C8_CrossIndexValid ==
    AcceptedOneKingEach =>
        /\ PieceListsValid(board)
        /\ PieceCountsValid(board)
        /\ PawnBitsValid(board)
        /\ CountersValid(board)
        /\ SideValid(board)
        /\ KeyValid(board)
        /\ KingSquaresValid(board)

\* a second call was accepted with one king per side, on a Board whose piece
\* lists still hold squares of the previous position, with pawns and big,
\* major and minor pieces on the grid
C8_Witness ==
    /\ AcceptedOneKingEach
    /\ fen.calls = 2
    /\ \E piece \in PieceIds :
          \E n \in board.piece_num[piece]..(PListLen - 1) : board.p_list[piece][n] # 0
    /\ board.piece_num[WP] > 0
    /\ board.piece_num[BP] > 0
    /\ board.major_piece_counts[WHITE] > 0
    /\ board.minor_piece_counts[BLACK] > 0

\* C9: in every state that a successful set_from_fen produces the half-move
\* clock is less than 100; a description whose half-move field is 100 or
\* more never becomes a state that breaks the bound.
C9_HalfmoveBelow100 == fen.state = "ok" => FiftyValid(board)

\* C10: in every state that a successful set_from_fen produces the
\* en-passant target is NoSquare, or lies on rank 6 with white to move, or on
\* rank 3 with black to move.
C10_EpRankMatchesSide == fen.state = "ok" => EpValid(board)

\* the key the description of generate_pos_key gives a position without an
\* en-passant target: the constants of the occupied squares, the side
\* constant when white is to move, and the castling constant
KeyWithoutEp(b) ==
    LET occupied == {sq \in Squares120 : OnBoard(sq) /\ b.pieces[sq] \in PieceIds}
        pieceKeys == UNION {PIECE_KEYS(b.pieces[sq], sq) : sq \in occupied}
        withSide == IF b.side = WHITE THEN Xor(pieceKeys, SIDE_KEY) ELSE pieceKeys
    IN Xor(withSide, CASTLE_KEYS(b.castle_perm))

\* C11: generate_pos_key includes an en-passant constant only when an
\* en-passant target is set: with ep_sq = NoSquare the key is the XOR of the
\* (piece, square) constants of the occupied squares, the side constant
\* (white to move only) and the castling constant of the rights mask.
C11_NoEpConstantWithoutTarget ==
    (fen.state = "ok" /\ board.ep_sq = NoSquare) =>
        generate_pos_key(board) = KeyWithoutEp(board)

\* the parts of a description, as the format names them
PlacementOf(chars) == SubSeq(chars, 1, FirstSpace(chars) - 1)
FieldsOf(chars) == SplitSpaces(SubSeq(chars, FirstSpace(chars) + 1, Len(chars)))
HasField(chars, n) == FirstSpace(chars) # 0 /\ n <= Len(FieldsOf(chars))

AllIn(field, letters) == \A i \in 1..Len(field) : InSeq(field[i], letters)

\* a non-negative integer: decimal digits, a leading '+' allowed
IsNonNegativeInteger(field) ==
    LET digits == IF field # << >> /\ Head(field) = "+" THEN Tail(field) ELSE field
    IN digits # << >> /\ AllIn(digits, DecDigits)

BadSeparator(chars) == FirstSpace(chars) = 0
BadPlacement(chars) ==
    /\ FirstSpace(chars) # 0
    /\ ~AllIn(PlacementOf(chars), PieceLetters \o RunDigits \o <<"/">>)
BadSide(chars) ==
    ~HasField(chars, 1) \/ FieldsOf(chars)[1] \notin {<<"w">>, <<"b">>}
BadCastling(chars) ==
    \/ ~HasField(chars, 2)
    \/ /\ FieldsOf(chars)[2] # <<"-">>
       /\ \/ FieldsOf(chars)[2] = << >>
          \/ ~AllIn(FieldsOf(chars)[2], <<"K", "Q", "k", "q">>)
BadEp(chars) ==
    \/ ~HasField(chars, 3)
    \/ /\ FieldsOf(chars)[3] # <<"-">>
       /\ ~(/\ Len(FieldsOf(chars)[3]) = 2
            /\ InSeq(FieldsOf(chars)[3][1], FileLetters)
            /\ InSeq(FieldsOf(chars)[3][2], RunDigits))
BadHalfmove(chars) ==
    ~HasField(chars, 4) \/ ~IsNonNegativeInteger(FieldsOf(chars)[4])
BadFullmove(chars) ==
    ~HasField(chars, 5) \/ ~IsNonNegativeInteger(FieldsOf(chars)[5])

Malformed(chars) ==
    \/ BadSeparator(chars)
    \/ BadPlacement(chars)
    \/ BadSide(chars)
    \/ BadCastling(chars)
    \/ BadEp(chars)
    \/ BadHalfmove(chars)
    \/ BadFullmove(chars)

\* C12: set_from_fen fails for every description with a missing separator, a
\* placement character that is no piece letter, digit 1-8 or '/', a side
\* field other than 'w' or 'b', a castling field that is neither '-' nor a
\* nonempty string over K, Q, k, q (the empty field included), an
\* en-passant field that is neither '-' nor a file and a rank within bounds,
\* or a half-move or full-move field that is missing or no non-negative
\* integer.
C12_MalformedFails ==
    (fen.calls > 0 /\ Malformed(fen.text)) => fen.state = "panic"

----------------------------------------------------------------------------
(* Claims about generate_all_moves and sq_attacked *)

\* generate_all_moves has returned its list for the position on the board
Generated == fen.state = "ok" /\ move_list.filled

EmittedIndices(from, to) ==
    {i \in 1..Len(move_list.moves) :
        move_list.moves[i].from = from /\ move_list.moves[i].to = to}

\* the emitted moves from `from` to `to`, without and with a given flag
Unflagged(from, to, flag) ==
    {i \in EmittedIndices(from, to) : ~(flag \subseteq move_list.moves[i].flags)}
Flagged(from, to, flag) ==
    {i \in EmittedIndices(from, to) : flag \subseteq move_list.moves[i].flags}

Mover == board.side
Opponent == 1 - board.side
MoverPawn == IF board.side = WHITE THEN WP ELSE BP
\* the mover's advance direction: sq + 10 for white, sq - 10 for black
Forward == IF board.side = WHITE THEN 10 ELSE -10
MoverPawnSquares == {sq \in BoardSquares : board.pieces[sq] = MoverPawn}
ForwardDiagonals(sq) == {sq + Forward - 1, sq + Forward + 1}

HoldsOpponent(t) == OnBoard(t) /\ PIECE_COL(board.pieces[t]) = Opponent

\* C13: for either side to move, a pawn capture from s to a forward-diagonal
\* square t is emitted exactly when t is on the board and holds a piece of
\* the opposing side, with that piece as the captured piece; none is
\* emitted onto an own piece or an empty square.
C13_PawnCaptures ==
    Generated =>
        \A s \in MoverPawnSquares : \A t \in ForwardDiagonals(s) :
            IF HoldsOpponent(t)
            THEN /\ Unflagged(s, t, EP_MASK) # {}
                 /\ \A i \in Unflagged(s, t, EP_MASK) :
                        move_list.moves[i].capture = board.pieces[t]
            ELSE Unflagged(s, t, EP_MASK) = {}

IsEmpty(t) == OnBoard(t) /\ board.pieces[t] = Empty
StartRank == IF board.side = WHITE THEN Rank2 ELSE Rank7

\* C14: for either side to move and every pawn of that side, a single push
\* is emitted exactly when the square one step ahead in the mover's
\* direction is empty, and a double push, flagged as pawn start, exactly
\* when the pawn is on its starting rank and the squares one and two steps
\* ahead are empty.
C14_PawnPushes ==
    Generated =>
        \A s \in MoverPawnSquares :
            /\ (EmittedIndices(s, s + Forward) # {}) <=> IsEmpty(s + Forward)
            /\ (Flagged(s, s + 2 * Forward, PAWN_START_MASK) # {})
                  <=> (/\ RANKS_BOARD(s) = StartRank
                       /\ IsEmpty(s + Forward)
                       /\ IsEmpty(s + 2 * Forward))
            /\ EmittedIndices(s, s + 2 * Forward)
                  = Flagged(s, s + 2 * Forward, PAWN_START_MASK)

EpMoveIndices ==
    {i \in 1..Len(move_list.moves) : EP_MASK \subseteq move_list.moves[i].flags}

\* C15: without an en-passant target no emitted move carries the en-passant
\* flag, wherever the pawns stand; with a target, every en-passant move
\* emitted has the target, an on-board square, as its destination.
C15_EpOnlyOntoTarget ==
    Generated =>
        IF board.ep_sq = NoSquare
        THEN EpMoveIndices = {}
        ELSE \A i \in EpMoveIndices :
                /\ move_list.moves[i].to = board.ep_sq
                /\ OnBoard(move_list.moves[i].to)

SecondToLastRank == IF board.side = WHITE THEN Rank7 ELSE Rank2
MoverPromotions == IF board.side = WHITE THEN {WQ, WN, WR, WB} ELSE {BQ, BN, BR, BB}

\* exactly four moves from s to t, one per promotion piece
FourPromotions(s, t) ==
    /\ Cardinality(EmittedIndices(s, t)) = 4
    /\ {move_list.moves[i].promote : i \in EmittedIndices(s, t)} = MoverPromotions

\* C16: for either side, a pawn on its second-to-last rank with the square
\* ahead empty yields exactly four push moves, one per promotion piece, and
\* each available diagonal capture from that rank yields exactly four
\* moves; a pawn on any other rank yields moves without promotion piece.
C16_Promotions ==
    Generated =>
        \A s \in MoverPawnSquares :
            IF RANKS_BOARD(s) = SecondToLastRank
            THEN /\ IsEmpty(s + Forward) => FourPromotions(s, s + Forward)
                 /\ \A t \in ForwardDiagonals(s) :
                        HoldsOpponent(t) => FourPromotions(s, t)
            ELSE \A i \in 1..Len(move_list.moves) :
                    move_list.moves[i].from = s => move_list.moves[i].promote = Empty

\* file and rank (0..7) of a square of the playing area
FileOf(sq) == (sq % 10) - 1
RankOf(sq) == (sq \div 10) - 2
Abs(x) == IF x < 0 THEN -x ELSE x
Sgn(x) == IF x < 0 THEN -1 ELSE IF x > 0 THEN 1 ELSE 0
Max(x, y) == IF x > y THEN x ELSE y

\* the squares strictly between p and t, which share a rank, file or diagonal
Between(p, t) ==
    LET df == FileOf(t) - FileOf(p)
        dr == RankOf(t) - RankOf(p)
    IN {filerank_to_square(FileOf(p) + j * Sgn(df), RankOf(p) + j * Sgn(dr)) :
            j \in 1..(Max(Abs(df), Abs(dr)) - 1)}

ClearLine(p, t) == \A q \in Between(p, t) : board.pieces[q] = Empty

\* the piece on p could capture onto t by its movement rule
CouldCapture(p, t) ==
    LET piece == board.pieces[p]
        df == FileOf(t) - FileOf(p)
        dr == RankOf(t) - RankOf(p)
        orthogonal == (df = 0) # (dr = 0)
        diagonal == Abs(df) = Abs(dr) /\ df # 0
    IN CASE piece = WP -> dr = 1 /\ Abs(df) = 1
         [] piece = BP -> dr = -1 /\ Abs(df) = 1
         [] piece \in {WN, BN} -> {Abs(df), Abs(dr)} = {1, 2}
         [] piece \in {WK, BK} -> Max(Abs(df), Abs(dr)) = 1
         [] piece \in {WR, BR} -> orthogonal /\ ClearLine(p, t)
         [] piece \in {WB, BB} -> diagonal /\ ClearLine(p, t)
         [] piece \in {WQ, BQ} -> (orthogonal \/ diagonal) /\ ClearLine(p, t)
         [] OTHER -> FALSE

\* the exhaustive scan: some piece of side c could capture onto sq
ScanAttacked(sq, c) ==
    \E p \in BoardSquares : PIECE_COL(board.pieces[p]) = c /\ CouldCapture(p, sq)

\* sq_attack_by_side has answered for a valid position
AttackAnswered ==
    /\ fen.state = "ok"
    /\ attacked.side \in Sides
    /\ check_validity(board)

\* C17: for every valid position, every square sq of the board and each
\* side c, sq_attacked(sq, c) holds exactly when some piece of c could
\* capture onto sq by its movement rule: pawn, knight, king, or a rook, bishop
\* or queen with no piece of either colour between it and sq.
C17_AttackAgreesWithScan ==
    AttackAnswered =>
        \A sq \in BoardSquares :
            attacked.by_sq[sq] <=> ScanAttacked(sq, attacked.side)

\* an answer with attacked and unattacked squares, one of the unattacked
\* being on the line of a rook or queen of the side but behind another piece
C17_Witness ==
    /\ AttackAnswered
    /\ \E sq \in BoardSquares : attacked.by_sq[sq]
    /\ \E sq \in BoardSquares :
          /\ ~attacked.by_sq[sq]
          /\ \E p \in BoardSquares :
                /\ IS_ROOKQUEEN(board.pieces[p])
                /\ PIECE_COL(board.pieces[p]) = attacked.side
                /\ (FileOf(p) = FileOf(sq)) # (RankOf(p) = RankOf(sq))
                /\ ~ClearLine(p, sq)

\* a castling right of the mover: its bit, the king's square, the square the
\* king passes through, its destination, and the squares between king and rook
MoverRights ==
    IF board.side = WHITE
    THEN {[bit |-> WKCA, king |-> E1, transit |-> F1, to |-> G1, between |-> {F1, G1}],
          [bit |-> WQCA, king |-> E1, transit |-> D1, to |-> C1, between |-> {B1, C1, D1}]}
    ELSE {[bit |-> BKCA, king |-> E8, transit |-> F8, to |-> G8, between |-> {F8, G8}],
          [bit |-> BQCA, king |-> E8, transit |-> D8, to |-> C8, between |-> {B8, C8, D8}]}

BitSet(mask, bit) == (mask \div bit) % 2 = 1

RightSatisfied(r) ==
    /\ BitSet(board.castle_perm, r.bit)
    /\ \A sq \in r.between : board.pieces[sq] = Empty
    /\ ~ScanAttacked(r.king, Opponent)
    /\ ~ScanAttacked(r.transit, Opponent)

CastleIndices ==
    {i \in 1..Len(move_list.moves) : CASTLE_MASK \subseteq move_list.moves[i].flags}

\* C18: for each side to move and each of its two castling rights, the
\* castle-flagged king move (e1g1, e1c1, e8g8, e8c8) is emitted exactly when
\* the right's bit is set, the squares between king and rook are empty, and
\* neither the king's square nor the square it passes through is attacked
\* by the opponent; one move per satisfied right and no other castle move.
C18_Castling ==
    Generated =>
        /\ \A r \in MoverRights :
              Cardinality(Flagged(r.king, r.to, CASTLE_MASK))
                  = (IF RightSatisfied(r) THEN 1 ELSE 0)
        /\ \A i \in CastleIndices :
              \E r \in MoverRights :
                  move_list.moves[i].from = r.king /\ move_list.moves[i].to = r.to

\* one right is satisfied and its move emitted, the other has its bit set and
\* its squares empty but its transit square attacked
C18_Witness ==
    /\ Generated
    /\ \E r \in MoverRights :
          RightSatisfied(r) /\ Flagged(r.king, r.to, CASTLE_MASK) # {}
    /\ \E r \in MoverRights :
          /\ BitSet(board.castle_perm, r.bit)
          /\ \A sq \in r.between : board.pieces[sq] = Empty
          /\ ScanAttacked(r.transit, Opponent)
          /\ Flagged(r.king, r.to, CASTLE_MASK) = {}

StartFen ==
    Fen6(PlStart, <<"w">>, <<"K", "Q", "k", "q">>, <<"-">>, <<"0">>, <<"1">>)
KiwipeteFen ==
    Fen6(PlKiwipete, <<"w">>, <<"K", "Q", "k", "q">>, <<"-">>, <<"0">>, <<"1">>)

MoveIndices == 1..Len(move_list.moves)
PieceMoved(i) == board.pieces[move_list.moves[i].from]
Plain(i) ==
    /\ move_list.moves[i].capture = Empty
    /\ move_list.moves[i].promote = Empty
    /\ ~(EP_MASK \subseteq move_list.moves[i].flags)
    /\ ~(CASTLE_MASK \subseteq move_list.moves[i].flags)

\* C19: from the standard starting arrangement with white to move exactly
\* 20 moves are emitted: 8 single and 8 double pawn pushes and 4 knight
\* moves, none a capture, promotion, en-passant or castle move.
C19_StartPositionTwentyMoves ==
    (Generated /\ fen.text = StartFen) =>
        /\ Len(move_list.moves) = 20
        /\ \A i \in MoveIndices : Plain(i)
        /\ Cardinality({i \in MoveIndices :
                /\ PieceMoved(i) = WP
                /\ move_list.moves[i].to = move_list.moves[i].from + 10
                /\ move_list.moves[i].flags = NoFlags}) = 8
        /\ Cardinality({i \in MoveIndices :
                /\ PieceMoved(i) = WP
                /\ move_list.moves[i].to = move_list.moves[i].from + 20
                /\ move_list.moves[i].flags = PAWN_START_MASK}) = 8
        /\ Cardinality({i \in MoveIndices : PieceMoved(i) = WN}) = 4
        /\ Cardinality({move_list.moves[i] : i \in MoveIndices}) = 20

C19_Witness == Generated /\ fen.text = StartFen /\ Len(move_list.moves) > 0

\* C20: from r3k2r/p1ppqpb1/bn2pnp1/3PN3/1p2P3/2N2Q1p/PPPBBPPP/R3K2R w KQkq - 0 1
\* the list holds both white castle-flagged moves, e1 to g1 and e1 to c1.
C20_KiwipeteBothCastles ==
    (Generated /\ fen.text = KiwipeteFen) =>
        /\ Flagged(E1, G1, CASTLE_MASK) # {}
        /\ Flagged(E1, C1, CASTLE_MASK) # {}

C20_Witness ==
    /\ Generated
    /\ fen.text = KiwipeteFen
    /\ board.pieces[E1] = WK
    /\ Len(move_list.moves) > 2

\* the squares of the mover's pieces of the given kinds
MoverSquares(kinds) ==
    {sq \in BoardSquares :
        board.pieces[sq] \in kinds /\ PIECE_COL(board.pieces[sq]) = Mover}

HoldsMover(t) == OnBoard(t) /\ PIECE_COL(board.pieces[t]) = Mover

\* t lies on a ray of the slider on s
OnRayOf(s, t) ==
    LET piece == board.pieces[s]
        df == FileOf(t) - FileOf(s)
        dr == RankOf(t) - RankOf(s)
        orthogonal == (df = 0) # (dr = 0)
        diagonal == Abs(df) = Abs(dr) /\ df # 0
    IN CASE piece \in {WR, BR} -> orthogonal
         [] piece \in {WB, BB} -> diagonal
         [] piece \in {WQ, BQ} -> orthogonal \/ diagonal
         [] OTHER -> FALSE

\* t is an offset of the knight or king on s away
OnJumpOf(s, t) ==
    LET df == FileOf(t) - FileOf(s)
        dr == RankOf(t) - RankOf(s)
    IN IF board.pieces[s] \in {WN, BN}
       THEN {Abs(df), Abs(dr)} = {1, 2}
       ELSE Max(Abs(df), Abs(dr)) = 1

\* the emitted moves from s, castle moves apart
PlainIndicesFrom(s) ==
    {i \in MoveIndices :
        move_list.moves[i].from = s /\ ~(CASTLE_MASK \subseteq move_list.moves[i].flags)}

\* move i is the quiet move or the capture of the occupant of its destination
QuietOrCapture(i) ==
    /\ OnBoard(move_list.moves[i].to)
    /\ move_list.moves[i].capture = board.pieces[move_list.moves[i].to]
    /\ move_list.moves[i].promote = Empty
    /\ move_list.moves[i].flags = NoFlags

SliderTarget(s, t) == OnRayOf(s, t) /\ ClearLine(s, t) /\ ~HoldsMover(t)

\* C21: for every bishop, rook and queen of the side to move and each of its
\* directions, the moves along the ray are exactly one quiet move to each
\* consecutive empty square from the piece on, then one capture if the first
\* occupied square holds an opposing piece (the captured piece being that
\* piece); nothing at or beyond an own piece or beyond any occupied square.
C21_SliderRays ==
    Generated =>
        \A s \in MoverSquares({WB, WR, WQ, BB, BR, BQ}) :
            /\ \A t \in BoardSquares \ {s} :
                  Cardinality(PlainIndicesFrom(s) \cap EmittedIndices(s, t))
                      = (IF SliderTarget(s, t) THEN 1 ELSE 0)
            /\ \A i \in PlainIndicesFrom(s) : QuietOrCapture(i)

\* a slider with a capture at the end of a ray, a ray cut by an own piece
\* and quiet moves
C21_Witness ==
    /\ Generated
    /\ \E s \in MoverSquares({WB, WR, WQ, BB, BR, BQ}) :
          /\ \E i \in PlainIndicesFrom(s) :
                /\ move_list.moves[i].capture # Empty
                /\ Between(s, move_list.moves[i].to) # {}
          /\ \E i \in PlainIndicesFrom(s) : move_list.moves[i].capture = Empty
          /\ \E t \in BoardSquares \ {s} :
                OnRayOf(s, t) /\ HoldsMover(t) /\ ClearLine(s, t) /\ Between(s, t) # {}

JumperTarget(s, t) == OnJumpOf(s, t) /\ ~HoldsMover(t)

\* C22: for every knight and king of the side to move and every offset, the
\* target yields no move if it is off the playing area or holds an own
\* piece, a quiet move if it is empty, a capture of the occupant if it holds
\* an opposing piece; no knight or king move has an off-board destination.
C22_JumperMoves ==
    Generated =>
        \A s \in MoverSquares({WN, WK, BN, BK}) :
            /\ \A t \in BoardSquares \ {s} :
                  Cardinality(PlainIndicesFrom(s) \cap EmittedIndices(s, t))
                      = (IF JumperTarget(s, t) THEN 1 ELSE 0)
            /\ \A i \in PlainIndicesFrom(s) : QuietOrCapture(i)

\* a knight at the edge with a capture, a quiet move and an own piece on a
\* target
C22_Witness ==
    /\ Generated
    /\ \E s \in MoverSquares({WN, BN}) :
          /\ FileOf(s) \in {0, 1, 6, 7} \/ RankOf(s) \in {0, 1, 6, 7}
          /\ \E i \in PlainIndicesFrom(s) : move_list.moves[i].capture # Empty
          /\ \E i \in PlainIndicesFrom(s) : move_list.moves[i].capture = Empty
          /\ \E t \in BoardSquares : OnJumpOf(s, t) /\ HoldsMover(t)

----------------------------------------------------------------------------
(* The move-ordering tables: historytable.rs and board/history.rs.  The     *)
(* driver that makes moves is not part of the sources; it is modelled as   *)
(* an environment that pushes and applies moves from a small set on a      *)
(* small position.                                                          *)

\* moves made by the driver before it stops
MaxHist == 3
\* calls of add_history, insert_countermove, add_followup_history and
\* insert_killer made by the driver
MaxHeurCalls == 2

\* pslots(), DO_COLOUR_DIFFERENTIATION being true
pslots == 12
\* MAX_DEPTH.ply_to_horizon(), the number of plies of the killer table
MAX_DEPTH == 128
I32_MAX == 2147483647
I32_MIN == -I32_MAX - 1

\* a result of a call that can panic
Ok(v) == [ok |-> TRUE, v |-> v]
Panics == [ok |-> FALSE, v |-> 0]

\* a + b in 32 bits, two's complement: with overflow checks an overflow
\* panics, without them it wraps
AddI32(a, b, checks) ==
    IF b > 0 /\ a > I32_MAX - b
    THEN IF checks THEN Panics ELSE Ok((a - I32_MAX - 1) + (b - I32_MAX - 1))
    ELSE IF b < 0 /\ a < I32_MIN - b
         THEN IF checks THEN Panics ELSE Ok((a + I32_MAX + 1) + (b + I32_MAX + 1))
         ELSE Ok(a + b)

piece_valid(piece) == piece \in WP..BK

\* Move::NULL, the packed value 0
NullMove == MoveNew(0, 0, Empty, Empty, NoFlags)
is_null(m) == m = NullMove
is_ep(m) == EP_MASK \subseteq m.flags

coloured_piece_index(piece) == (piece - 1) % (U8MAX + 1)

\* piece_index: the debug assertion and the u8 subtraction panic for the
\* empty piece when checked, the subtraction wraps otherwise
piece_index(piece, checks) ==
    IF checks /\ ~piece_valid(piece) THEN Panics ELSE Ok(coloured_piece_index(piece))

\* a table whose cells hold `cells[k]` at the keys written since the last
\* clear and the default everywhere else
Cell(t, k, default) == IF k \in DOMAIN t.cells THEN t.cells[k] ELSE default
SetCell(t, k, v) ==
    [t EXCEPT !.cells = [x \in DOMAIN t.cells \cup {k} |-> IF x = k THEN v ELSE Cell(t, x, v)]]

\* HistoryTable: Default (no rows), clear, add, get
HistoryTableNew == [rows |-> 0, cells |-> << >>]
HistoryTableClear(t) == [rows |-> pslots, cells |-> << >>]

HistoryTableInRange(t, pt, sq) == pt.ok /\ pt.v < t.rows /\ sq < BOARD_N_SQUARES

HistoryTableAdd(t, piece, sq, score, checks) ==
    LET pt == piece_index(piece, checks)
    IN IF ~HistoryTableInRange(t, pt, sq) THEN [ok |-> FALSE, t |-> t]
       ELSE LET sum == AddI32(Cell(t, <<pt.v, sq>>, 0), score, checks)
            IN IF sum.ok THEN [ok |-> TRUE, t |-> SetCell(t, <<pt.v, sq>>, sum.v)]
               ELSE [ok |-> FALSE, t |-> t]

HistoryTableGet(t, piece, sq, checks) ==
    LET pt == piece_index(piece, checks)
    IN IF ~HistoryTableInRange(t, pt, sq) THEN Panics
       ELSE Ok(Cell(t, <<pt.v, sq>>, 0))

\* DoubleHistoryTable: one Vec<i32> indexed by I1, I2, I3
DoubleHistoryTableNew == [len |-> 0, cells |-> << >>]
DoubleHistoryTableClear(t) ==
    [len |-> BOARD_N_SQUARES * pslots * BOARD_N_SQUARES * pslots, cells |-> << >>]

DoubleHistoryTableIndex(pt_1, sq1, pt_2, sq2) ==
    pt_1 * (BOARD_N_SQUARES * pslots * BOARD_N_SQUARES)
    + pt_2 * (BOARD_N_SQUARES * pslots)
    + sq1 * BOARD_N_SQUARES
    + sq2

DoubleHistoryTableAdd(t, piece_1, sq1, piece_2, sq2, score, checks) ==
    LET pt_1 == piece_index(piece_1, checks)
        pt_2 == piece_index(piece_2, checks)
    IN IF ~pt_1.ok \/ ~pt_2.ok THEN [ok |-> FALSE, t |-> t]
       ELSE LET idx == DoubleHistoryTableIndex(pt_1.v, sq1, pt_2.v, sq2)
            IN IF idx >= t.len THEN [ok |-> FALSE, t |-> t]
               ELSE LET sum == AddI32(Cell(t, idx, 0), score, checks)
                    IN IF sum.ok THEN [ok |-> TRUE, t |-> SetCell(t, idx, sum.v)]
                       ELSE [ok |-> FALSE, t |-> t]

DoubleHistoryTableGet(t, piece_1, sq1, piece_2, sq2, checks) ==
    LET pt_1 == piece_index(piece_1, checks)
        pt_2 == piece_index(piece_2, checks)
    IN IF ~pt_1.ok \/ ~pt_2.ok THEN Panics
       ELSE LET idx == DoubleHistoryTableIndex(pt_1.v, sq1, pt_2.v, sq2)
            IN IF idx >= t.len THEN Panics ELSE Ok(Cell(t, idx, 0))

\* MoveTable: one Vec<Move>
MoveTableNew == [len |-> 0, cells |-> << >>]
MoveTableClear(t) == [len |-> BOARD_N_SQUARES * pslots, cells |-> << >>]

MoveTableIndex(pt, sq) == pt * BOARD_N_SQUARES + sq

MoveTableAdd(t, piece, sq, move_, checks) ==
    LET pt == piece_index(piece, checks)
    IN IF ~pt.ok \/ MoveTableIndex(pt.v, sq) >= t.len THEN [ok |-> FALSE, t |-> t]
       ELSE [ok |-> TRUE, t |-> SetCell(t, MoveTableIndex(pt.v, sq), move_)]

MoveTableGet(t, piece, sq, checks) ==
    LET pt == piece_index(piece, checks)
    IN IF ~pt.ok \/ MoveTableIndex(pt.v, sq) >= t.len THEN Panics
       ELSE Ok(Cell(t, MoveTableIndex(pt.v, sq), NullMove))

\* Board::moved_piece and Board::piece_at
moved_piece(pos, m) == pos.pieces[m.from]
piece_at(pos, sq) == pos.pieces[sq]

\* debug_assert!(self.height < MAX_DEPTH.ply_to_horizon())
HeightAsserted(pos) == pos.checks => pos.height < MAX_DEPTH

add_history(pos, t, m, score) ==
    HistoryTableAdd(t, moved_piece(pos, m), m.to, score, pos.checks)

history_score(pos, t, m) ==
    HistoryTableGet(t, moved_piece(pos, m), m.to, pos.checks)

\* insert_countermove keyed by the candidate move instead of the preceding one
insert_countermove_by_candidate(pos, t, m) ==
    IF ~HeightAsserted(pos) THEN [ok |-> FALSE, t |-> t]
    ELSE IF Len(pos.history) = 0 THEN [ok |-> TRUE, t |-> t]
    ELSE IF is_null(pos.history[Len(pos.history)].m) THEN [ok |-> TRUE, t |-> t]
    ELSE MoveTableAdd(t, moved_piece(pos, m), m.to, m, pos.checks)

insert_countermove(pos, t, m) ==
    IF ~HeightAsserted(pos) THEN [ok |-> FALSE, t |-> t]
    ELSE IF Len(pos.history) = 0 THEN [ok |-> TRUE, t |-> t]
    ELSE LET prev_move == pos.history[Len(pos.history)].m
         IN IF is_null(prev_move) THEN [ok |-> TRUE, t |-> t]
            ELSE MoveTableAdd(t, piece_at(pos, prev_move.to), prev_move.to, m,
                              pos.checks)

is_countermove(pos, t, m) ==
    IF Len(pos.history) = 0 THEN Ok(FALSE)
    ELSE LET prev_move == pos.history[Len(pos.history)].m
         IN IF prev_move = NullMove THEN Ok(FALSE)
            ELSE LET got == MoveTableGet(t, piece_at(pos, prev_move.to),
                                         prev_move.to, pos.checks)
                 IN IF got.ok THEN Ok(got.v = m) ELSE [ok |-> FALSE, v |-> FALSE]

\* the early returns of the follow-up functions without the en-passant test
FollowupSkippedButEp(pos) ==
    \/ Len(pos.history) < 2
    \/ is_null(pos.history[Len(pos.history) - 1].m)
    \/ is_null(pos.history[Len(pos.history)].m)

\* the early returns of add_followup_history and followup_history_score
FollowupSkipped(pos) ==
    \/ Len(pos.history) < 2
    \/ is_null(pos.history[Len(pos.history) - 1].m)
    \/ is_null(pos.history[Len(pos.history)].m)
    \/ is_ep(pos.history[Len(pos.history)].m)

\* the piece on the destination two plies ago, read from the board only
TpaPieceLive(pos) ==
    piece_at(pos, pos.history[Len(pos.history) - 1].m.to)

\* tpa_piece: the identity of the piece moved two plies ago
TpaPiece(pos) ==
    LET tpa_to == pos.history[Len(pos.history) - 1].m.to
        prev_move == pos.history[Len(pos.history)].m
        capture == prev_move.capture
    IN IF capture # Empty /\ prev_move.to = tpa_to
       THEN capture
       ELSE piece_at(pos, tpa_to)

add_followup_history(pos, t, m, score) ==
    IF ~HeightAsserted(pos) THEN [ok |-> FALSE, t |-> t]
    ELSE IF FollowupSkipped(pos) THEN [ok |-> TRUE, t |-> t]
    ELSE DoubleHistoryTableAdd(t, TpaPiece(pos),
                               pos.history[Len(pos.history) - 1].m.to,
                               moved_piece(pos, m), m.to, score, pos.checks)

followup_history_score(pos, t, m) ==
    IF FollowupSkipped(pos) THEN Ok(0)
    ELSE DoubleHistoryTableGet(t, TpaPiece(pos),
                               pos.history[Len(pos.history) - 1].m.to,
                               moved_piece(pos, m), m.to, pos.checks)

\* Board::killer_move_table: MAX_DEPTH entries of two moves
NoKillers == [s \in 0..1 |-> NullMove]
KillerTableNew == [len |-> MAX_DEPTH, cells |-> << >>]

\* insert_killer that overwrites slot 0 only
insert_killer_no_shift(pos, t, m) ==
    IF ~HeightAsserted(pos) THEN [ok |-> FALSE, t |-> t]
    ELSE LET entry == Cell(t, pos.height, NoKillers)
         IN [ok |-> TRUE,
             t |-> SetCell(t, pos.height, [s \in 0..1 |-> IF s = 0 THEN m ELSE entry[1]])]

\* insert_killer; the height is inside the table in every state of this
\* model
insert_killer(pos, t, m) ==
    IF ~HeightAsserted(pos) THEN [ok |-> FALSE, t |-> t]
    ELSE LET entry == Cell(t, pos.height, NoKillers)
         IN [ok |-> TRUE,
             t |-> SetCell(t, pos.height, [s \in 0..1 |-> IF s = 0 THEN m ELSE entry[0]])]

----------------------------------------------------------------------------
(* SpecHist: the tables under a driver *)

\* the position the driver starts from: Ke1 Nf3 Pe5 against Ke8 Nc6 Pd7
HistStartPieces ==
    [sq \in Squares120 |->
        CASE sq = 25 -> WK
          [] sq = 46 -> WN
          [] sq = 65 -> WP
          [] sq = 95 -> BK
          [] sq = 73 -> BN
          [] sq = 84 -> BP
          [] OTHER -> Empty]

\* the moves the driver chooses from
HistMoves ==
    { MoveNew(46, 54, Empty, Empty, NoFlags),         \* Nf3-d4
      MoveNew(54, 73, BN, Empty, NoFlags),            \* Nd4xc6
      MoveNew(65, 74, Empty, Empty, EP_MASK),         \* e5xd6 en passant
      MoveNew(65, 75, Empty, Empty, NoFlags),         \* e5-e6
      MoveNew(73, 54, WN, Empty, NoFlags),            \* Nc6xd4
      MoveNew(73, 65, WP, Empty, NoFlags),            \* Nc6xe5
      MoveNew(84, 64, Empty, Empty, PAWN_START_MASK), \* d7-d5
      MoveNew(84, 74, Empty, Empty, NoFlags) }        \* d7-d6

HistScores == {-1, 1073741824}

\* m is a move of the side to move in the position: its piece stands on the
\* origin, the capture field names the occupant of the destination, an
\* en-passant capture answers the double push just made
MoveFits(pos, m) ==
    LET p == pos.pieces[m.from]
    IN /\ p # Empty
       /\ PIECE_COL(p) = pos.side
       /\ IF is_ep(m)
          THEN /\ p \in {WP, BP}
               /\ pos.pieces[m.to] = Empty
               /\ m.capture = Empty
               /\ Len(pos.history) > 0
               /\ LET last == pos.history[Len(pos.history)].m
                  IN /\ PAWN_START_MASK \subseteq last.flags
                     /\ last.to = (IF pos.side = WHITE THEN m.to - 10 ELSE m.to + 10)
          ELSE /\ m.capture = pos.pieces[m.to]
               /\ m.capture = Empty \/ PIECE_COL(m.capture) = 1 - pos.side

Candidates(pos) == {m \in HistMoves : MoveFits(pos, m)}

\* the driver's apply step: the grid, the side, the height and one more
\* record (the move, and for later reference the piece that made it)
Applied(pos, m) ==
    LET p == pos.pieces[m.from]
        behind == IF pos.side = WHITE THEN m.to - 10 ELSE m.to + 10
        moved == [pos.pieces EXCEPT ![m.from] = Empty, ![m.to] = p]
    IN [pos EXCEPT
          !.pieces = IF is_ep(m) THEN [moved EXCEPT ![behind] = Empty] ELSE moved,
          !.side = 1 - pos.side,
          !.height = pos.height + 1,
          !.history = Append(pos.history, [m |-> m, piece |-> p])]

AppliedNull(pos) ==
    [pos EXCEPT !.side = 1 - pos.side,
                !.height = pos.height + 1,
                !.history = Append(pos.history, [m |-> NullMove, piece |-> Empty])]

InitHist ==
    /\ InitTT
    /\ InitConcIdle
    /\ InitBoardIdle
    /\ \E checks \in BOOLEAN :
          position = [pieces |-> HistStartPieces, side |-> WHITE, history |-> << >>,
                      height |-> 0, checks |-> checks]
    /\ history_table = HistoryTableNew
    /\ counter_move_table = MoveTableNew
    /\ followup_history = DoubleHistoryTableNew
    /\ killer_move_table = KillerTableNew
    /\ applied = NotApplied
    /\ lastop = [op |-> "new", m |-> NullMove, score |-> 0, pre |-> << >>,
                 outcome |-> "ok", calls |-> 0, added |-> << >>,
                 killers |-> << >>]

Running == lastop.outcome = "ok"

Noted(op, m, score, pre, ok) ==
    [lastop EXCEPT !.op = op, !.m = m, !.score = score, !.pre = pre,
                   !.outcome = IF ok THEN "ok" ELSE "panic"]

\* the moves inserted as killers at ply h so far
KillersAt(h) == IF h \in DOMAIN lastop.killers THEN lastop.killers[h] ELSE << >>

Counted(rec) == [rec EXCEPT !.calls = @ + 1]

MakeMove(m) ==
    /\ Running
    /\ Len(position.history) < MaxHist
    /\ MoveFits(position, m)
    /\ position' = Applied(position, m)
    /\ lastop' = Noted("make_move", m, 0, << >>, TRUE)
    /\ UNCHANGED <<history_table, counter_move_table, followup_history,
                   killer_move_table>>

MakeMoveAny == \E m \in HistMoves : MakeMove(m)

MakeNullMove ==
    /\ Running
    /\ Len(position.history) < MaxHist
    /\ position' = AppliedNull(position)
    /\ lastop' = Noted("make_nullmove", NullMove, 0, << >>, TRUE)
    /\ UNCHANGED <<history_table, counter_move_table, followup_history,
                   killer_move_table>>

\* the tables are cleared between searches, at the root
ClearHistory ==
    /\ Running
    /\ position.height = 0
    /\ history_table' = HistoryTableClear(history_table)
    /\ lastop' = [Noted("history_table.clear", NullMove, 0, << >>, TRUE)
                     EXCEPT !.added = << >>]
    /\ UNCHANGED <<position, counter_move_table, followup_history, killer_move_table>>

ClearCountermoves ==
    /\ Running
    /\ position.height = 0
    /\ counter_move_table' = MoveTableClear(counter_move_table)
    /\ lastop' = Noted("counter_move_table.clear", NullMove, 0, << >>, TRUE)
    /\ UNCHANGED <<position, history_table, followup_history, killer_move_table>>

ClearFollowup ==
    /\ Running
    /\ position.height = 0
    /\ followup_history' = DoubleHistoryTableClear(followup_history)
    /\ lastop' = Noted("followup_history.clear", NullMove, 0, << >>, TRUE)
    /\ UNCHANGED <<position, history_table, counter_move_table, killer_move_table>>

\* the scores added to a key of the plain history table since its clear
AddedTo(key) == IF key \in DOMAIN lastop.added THEN lastop.added[key] ELSE << >>

AddHistory(m, score) ==
    /\ Running
    /\ lastop.calls < MaxHeurCalls
    /\ LET r == add_history(position, history_table, m, score)
           key == <<moved_piece(position, m), m.to>>
           rec == Counted(Noted("add_history", m, score, history_table, r.ok))
       IN /\ history_table' = r.t
          /\ lastop' = IF r.ok
                       THEN [rec EXCEPT !.added =
                               [k \in DOMAIN lastop.added \cup {key} |->
                                   IF k = key THEN Append(AddedTo(key), score)
                                   ELSE AddedTo(k)]]
                       ELSE rec
    /\ UNCHANGED <<position, counter_move_table, followup_history, killer_move_table>>

AddHistoryAny ==
    \E m \in Candidates(position), score \in HistScores : AddHistory(m, score)

InsertCountermove(m) ==
    /\ Running
    /\ lastop.calls < MaxHeurCalls
    /\ LET r == insert_countermove(position, counter_move_table, m)
       IN /\ counter_move_table' = r.t
          /\ lastop' = Counted(Noted("insert_countermove", m, 0, counter_move_table, r.ok))
    /\ UNCHANGED <<position, history_table, followup_history, killer_move_table>>

InsertCountermoveAny == \E m \in Candidates(position) : InsertCountermove(m)

AddFollowupHistory(m, score) ==
    /\ Running
    /\ lastop.calls < MaxHeurCalls
    /\ LET r == add_followup_history(position, followup_history, m, score)
       IN /\ followup_history' = r.t
          /\ lastop' = Counted(Noted("add_followup_history", m, score, followup_history, r.ok))
    /\ UNCHANGED <<position, history_table, counter_move_table, killer_move_table>>

AddFollowupHistoryAny ==
    \E m \in Candidates(position), score \in HistScores : AddFollowupHistory(m, score)

InsertKiller(m) ==
    /\ Running
    /\ lastop.calls < MaxHeurCalls
    /\ LET r == insert_killer(position, killer_move_table, m)
           rec == Counted(Noted("insert_killer", m, 0, killer_move_table, r.ok))
       IN /\ killer_move_table' = r.t
          /\ lastop' = IF r.ok
                       THEN [rec EXCEPT !.killers =
                               [h \in DOMAIN lastop.killers \cup {position.height} |->
                                   IF h = position.height
                                   THEN Append(KillersAt(h), m)
                                   ELSE KillersAt(h)]]
                       ELSE rec
    /\ UNCHANGED <<position, history_table, counter_move_table, followup_history>>

InsertKillerAny == \E m \in Candidates(position) : InsertKiller(m)

NextHist ==
    \/ MakeMoveAny /\ UNCHANGED <<ttVars, concVars, fenVars, undoVars>>
    \/ MakeNullMove /\ UNCHANGED <<ttVars, concVars, fenVars, undoVars>>
    \/ ClearHistory /\ UNCHANGED <<ttVars, concVars, fenVars, undoVars>>
    \/ ClearCountermoves /\ UNCHANGED <<ttVars, concVars, fenVars, undoVars>>
    \/ ClearFollowup /\ UNCHANGED <<ttVars, concVars, fenVars, undoVars>>
    \/ AddHistoryAny /\ UNCHANGED <<ttVars, concVars, fenVars, undoVars>>
    \/ InsertCountermoveAny /\ UNCHANGED <<ttVars, concVars, fenVars, undoVars>>
    \/ AddFollowupHistoryAny /\ UNCHANGED <<ttVars, concVars, fenVars, undoVars>>
    \/ InsertKillerAny /\ UNCHANGED <<ttVars, concVars, fenVars, undoVars>>

SpecHist == InitHist /\ [][NextHist]_vars

----------------------------------------------------------------------------
(* Claims about the move-ordering tables *)

HistLen == Len(position.history)
\* the records one ply and two plies back
OnePlyBack == position.history[HistLen]
TwoPliesBack == position.history[HistLen - 1]

ProbedMoves == HistMoves \cup {NullMove}

\* fewer than two records, or a null move in one of the last two, or an
\* en-passant capture as the last
FollowupCaseSkipped ==
    \/ HistLen < 2
    \/ TwoPliesBack.m = NullMove
    \/ OnePlyBack.m = NullMove
    \/ EP_MASK \subseteq OnePlyBack.m.flags

\* C23: whenever the move-history list holds fewer than two records, or one
\* of the last two records holds the null move, or the last move is an
\* en-passant capture, add_followup_history leaves the follow-up table
\* unchanged and followup_history_score returns 0 for every move.
C23_FollowupSkipped ==
    FollowupCaseSkipped =>
        /\ \A m \in ProbedMoves :
              followup_history_score(position, followup_history, m) = Ok(0)
        /\ lastop.op = "add_followup_history" =>
              /\ lastop.outcome = "ok"
              /\ followup_history = lastop.pre

\* add_followup_history has just been called after an en-passant capture,
\* on a table that holds a score
C23_Witness ==
    /\ lastop.op = "add_followup_history"
    /\ HistLen >= 2
    /\ TwoPliesBack.m # NullMove
    /\ is_ep(OnePlyBack.m)
    /\ \E k \in DOMAIN followup_history.cells : followup_history.cells[k] # 0

\* the move one ply back took a piece on the destination of the move two
\* plies back
CapturedThere ==
    OnePlyBack.m.capture # Empty /\ OnePlyBack.m.to = TwoPliesBack.m.to

\* the cell of the follow-up table for candidate m, the two-ply-back piece
\* being the one that made that move
FollowupCellOf(m) ==
    (TwoPliesBack.piece - 1) * (BOARD_N_SQUARES * pslots * BOARD_N_SQUARES)
    + (position.pieces[m.from] - 1) * (BOARD_N_SQUARES * pslots)
    + TwoPliesBack.m.to * BOARD_N_SQUARES
    + m.to

\* C24: in follow-up updates and lookups that are not skipped, the piece
\* identity for the move two plies back is the captured-piece field of the
\* move one ply back when that move captured on the two-ply-back
\* destination, otherwise the piece now on that square; it is the piece that
\* made the two-ply-back move, never the capturing piece; add and lookup
\* use the same key, so a lookup right after add(m, score) on a cleared
\* table returns score.
C24_FollowupKey ==
    ~FollowupCaseSkipped =>
        /\ TpaPiece(position) =
              (IF CapturedThere THEN OnePlyBack.m.capture
               ELSE position.pieces[TwoPliesBack.m.to])
        /\ TpaPiece(position) = TwoPliesBack.piece
        /\ CapturedThere => TpaPiece(position) # OnePlyBack.piece
        /\ lastop.op = "add_followup_history" /\ lastop.outcome = "ok" =>
              /\ DOMAIN followup_history.cells
                    = DOMAIN lastop.pre.cells \cup {FollowupCellOf(lastop.m)}
              /\ lastop.pre.cells = << >> =>
                    /\ followup_history_score(position, followup_history, lastop.m)
                          = Ok(lastop.score)
                    /\ followup_history.cells[FollowupCellOf(lastop.m)] = lastop.score

\* an add on a cleared table, two plies after a move whose piece was then
\* captured on its destination
C24_Witness ==
    /\ HistLen >= 2
    /\ ~FollowupCaseSkipped
    /\ CapturedThere
    /\ lastop.op = "add_followup_history"
    /\ lastop.outcome = "ok"
    /\ lastop.pre.cells = << >>

\* C25: after any sequence of insert_killer calls at a ply h, slot 0 of ply h
\* holds the move inserted last and slot 1 the move inserted just before it
\* (the null move where there was none), whatever was inserted at other
\* plies.
C25_KillerSlots ==
    /\ DOMAIN killer_move_table.cells = DOMAIN lastop.killers
    /\ \A h \in 0..(MAX_DEPTH - 1) :
          LET log == KillersAt(h)
              entry == Cell(killer_move_table, h, NoKillers)
          IN /\ entry[0] = (IF Len(log) >= 1 THEN log[Len(log)] ELSE NullMove)
             /\ entry[1] = (IF Len(log) >= 2 THEN log[Len(log) - 1] ELSE NullMove)

\* two different moves have been inserted at the current ply
C25_Witness ==
    /\ lastop.op = "insert_killer"
    /\ Len(KillersAt(position.height)) = 2
    /\ KillersAt(position.height)[1] # KillersAt(position.height)[2]
    /\ position.height > 0

CountermoveCaseSkipped == HistLen = 0 \/ OnePlyBack.m = NullMove

\* the cell of the countermove table for the piece now on the destination
\* of the preceding move
CountermoveCell ==
    (position.pieces[OnePlyBack.m.to] - 1) * BOARD_N_SQUARES + OnePlyBack.m.to

\* C26: with an empty move-history list or a null move as its last record,
\* insert_countermove leaves the table unchanged and is_countermove is false
\* for every move; otherwise after insert_countermove(m) is_countermove(m')
\* is true exactly for m' = m, the cell written being that of the piece now
\* on the preceding move's destination and that destination.
C26_Countermove ==
    IF CountermoveCaseSkipped
    THEN /\ \A m \in ProbedMoves :
               is_countermove(position, counter_move_table, m) = Ok(FALSE)
         /\ lastop.op = "insert_countermove" =>
               lastop.outcome = "ok" /\ counter_move_table = lastop.pre
    ELSE lastop.op = "insert_countermove" /\ lastop.outcome = "ok" =>
            /\ \A m \in ProbedMoves :
                  is_countermove(position, counter_move_table, m) = Ok(m = lastop.m)
            /\ DOMAIN counter_move_table.cells
                  = DOMAIN lastop.pre.cells \cup {CountermoveCell}
            /\ \A k \in DOMAIN lastop.pre.cells \ {CountermoveCell} :
                  counter_move_table.cells[k] = lastop.pre.cells[k]

\* a countermove has been inserted after a capture
C26_Witness ==
    /\ lastop.op = "insert_countermove"
    /\ lastop.outcome = "ok"
    /\ HistLen > 0
    /\ OnePlyBack.m # NullMove
    /\ OnePlyBack.m.capture # Empty

\* v is the sum of the scores of pos (all >= 0) and neg (all < 0), reckoned
\* without leaving the 32-bit range
RECURSIVE SumIs(_, _, _)
SumIs(v, pos, neg) ==
    IF v >= 0
    THEN IF pos = << >> THEN v = 0 /\ neg = << >>
         ELSE SumIs(v - Head(pos), Tail(pos), neg)
    ELSE IF neg = << >> THEN FALSE
         ELSE SumIs(v - Head(neg), pos, Tail(neg))

NonNegative(x) == x >= 0
Negative(x) == x < 0

\* C27: for the plain history table, after clear() and any sequence of add
\* calls, every add returns and get(piece, sq) is the sum of the scores
\* added for that key since the clear (0 if none).
C27_HistorySums ==
    /\ lastop.op = "add_history" /\ lastop.pre.rows > 0 => lastop.outcome = "ok"
    /\ Running /\ history_table.rows > 0 =>
          \A piece \in WP..BK, sq \in {m.to : m \in HistMoves} :
              LET got == HistoryTableGet(history_table, piece, sq, position.checks)
                  scores == AddedTo(<<piece, sq>>)
              IN /\ got.ok
                 /\ SumIs(got.v, SelectSeq(scores, NonNegative),
                          SelectSeq(scores, Negative))

----------------------------------------------------------------------------
(* Applying a move and taking it back.  The two operations are not in the   *)
(* sources; they follow the spec's description of the history record (the  *)
(* move, the prior en-passant target, castling rights, half-move clock and  *)
(* hash key) and of incremental maintenance of the grid, the piece lists,   *)
(* the counts, the material, the pawn bit-sets, the king squares and the    *)
(* key.                                                                     *)

A1 == filerank_to_square(0, 0)
H1 == filerank_to_square(7, 0)
A8 == filerank_to_square(0, 7)
H8 == filerank_to_square(7, 7)

\* the rights a move from or to a square leaves standing
CASTLE_PERM(sq) ==
    CASE sq = A1 -> 13
      [] sq = E1 -> 12
      [] sq = H1 -> 14
      [] sq = A8 -> 7
      [] sq = E8 -> 3
      [] sq = H8 -> 11
      [] OTHER -> 15

AndBits(x, y) ==
    LET bit(v) == IF (x \div v) % 2 = 1 /\ (y \div v) % 2 = 1 THEN v ELSE 0
    IN bit(WKCA) + bit(WQCA) + bit(BKCA) + bit(BQCA)

IsPawn(piece) == piece = WP \/ piece = BP
IsKing(piece) == piece = WK \/ piece = BK

\* the slots of a piece list that hold sq
SlotsOf(b, piece, sq) ==
    {i \in 0..(b.piece_num[piece] - 1) : b.p_list[piece][i] = sq}

\* remove the piece on sq from every index; the last entry of its list takes
\* its slot
clear_piece(b, sq) ==
    LET piece == b.pieces[sq]
    IN IF ~piece_valid(piece) THEN Failed(b)
       ELSE IF SlotsOf(b, piece, sq) = {} THEN Failed(b)
       ELSE LET colour == PIECE_COL(piece)
                slot == CHOOSE i \in SlotsOf(b, piece, sq) :
                            \A j \in SlotsOf(b, piece, sq) : i <= j
                last == b.piece_num[piece] - 1
            IN Done([b EXCEPT
                  !.key = Xor(@, PIECE_KEYS(piece, sq)),
                  !.pieces[sq] = Empty,
                  !.material[colour] = @ - PIECE_VAL(piece),
                  !.big_piece_counts[colour] = @ - (IF PIECE_BIG(piece) THEN 1 ELSE 0),
                  !.major_piece_counts[colour] = @ - (IF PIECE_MAJ(piece) THEN 1 ELSE 0),
                  !.minor_piece_counts[colour] = @ - (IF PIECE_MIN(piece) THEN 1 ELSE 0),
                  !.pawns[colour] = IF IsPawn(piece) THEN @ \ {SQ120_TO_SQ64(sq)} ELSE @,
                  !.pawns[Both] = IF IsPawn(piece) THEN @ \ {SQ120_TO_SQ64(sq)} ELSE @,
                  !.p_list[piece][slot] = b.p_list[piece][last],
                  !.piece_num[piece] = last])

\* put a piece on sq in every index, at the end of its list
add_piece(b, sq, piece) ==
    IF ~piece_valid(piece) \/ b.piece_num[piece] >= PListLen THEN Failed(b)
    ELSE LET colour == PIECE_COL(piece)
         IN Done([b EXCEPT
               !.key = Xor(@, PIECE_KEYS(piece, sq)),
               !.pieces[sq] = piece,
               !.material[colour] = @ + PIECE_VAL(piece),
               !.big_piece_counts[colour] = @ + (IF PIECE_BIG(piece) THEN 1 ELSE 0),
               !.major_piece_counts[colour] = @ + (IF PIECE_MAJ(piece) THEN 1 ELSE 0),
               !.minor_piece_counts[colour] = @ + (IF PIECE_MIN(piece) THEN 1 ELSE 0),
               !.pawns[colour] = IF IsPawn(piece) THEN @ \cup {SQ120_TO_SQ64(sq)} ELSE @,
               !.pawns[Both] = IF IsPawn(piece) THEN @ \cup {SQ120_TO_SQ64(sq)} ELSE @,
               !.p_list[piece][b.piece_num[piece]] = sq,
               !.piece_num[piece] = @ + 1])

\* move the piece on `from` to `to` in every index; the destination is taken
\* to be empty
move_piece(b, from, to) ==
    LET piece == b.pieces[from]
    IN IF ~piece_valid(piece) THEN Failed(b)
       ELSE IF SlotsOf(b, piece, from) = {} THEN Failed(b)
       ELSE LET colour == PIECE_COL(piece)
                slot == CHOOSE i \in SlotsOf(b, piece, from) :
                            \A j \in SlotsOf(b, piece, from) : i <= j
                moved(bits) == (bits \ {SQ120_TO_SQ64(from)}) \cup {SQ120_TO_SQ64(to)}
            IN Done([b EXCEPT
                  !.key = Xor(Xor(@, PIECE_KEYS(piece, from)), PIECE_KEYS(piece, to)),
                  !.pieces[from] = Empty,
                  !.pieces[to] = piece,
                  !.pawns[colour] = IF IsPawn(piece) THEN moved(@) ELSE @,
                  !.pawns[Both] = IF IsPawn(piece) THEN moved(@) ELSE @,
                  !.p_list[piece][slot] = to])

\* the rook's squares of a castle move with the king's destination `to`
CastleRook(to) ==
    CASE to = C1 -> <<A1, D1>>
      [] to = G1 -> <<H1, F1>>
      [] to = C8 -> <<A8, D8>>
      [] to = G8 -> <<H8, F8>>
      [] OTHER -> << >>

\* behind the destination of an en-passant capture by `side`
BehindOf(side, to) == IF side = WHITE THEN to - 10 ELSE to + 10

\* apply a move: push the record, then update every index and the key
make_move(b0, m) ==
    LET side == b0.side
        piece == b0.pieces[m.from]
        record == [m |-> m, castle_perm |-> b0.castle_perm, ep_sq |-> b0.ep_sq,
                   fifty_move_counter |-> b0.fifty_move_counter, key |-> b0.key]
        special(b) ==
            IF EP_MASK \subseteq m.flags THEN clear_piece(b, BehindOf(side, m.to))
            ELSE IF CASTLE_MASK \subseteq m.flags
                 THEN IF CastleRook(m.to) = << >> THEN Failed(b)
                      ELSE move_piece(b, CastleRook(m.to)[1], CastleRook(m.to)[2])
                 ELSE Done(b)
        rights(b) ==
            LET perm == AndBits(AndBits(b.castle_perm, CASTLE_PERM(m.from)),
                                CASTLE_PERM(m.to))
                k1 == IF b.ep_sq # NoSquare THEN Xor(b.key, PIECE_KEYS(Empty, b.ep_sq))
                      ELSE b.key
                k2 == Xor(Xor(k1, CASTLE_KEYS(b.castle_perm)), CASTLE_KEYS(perm))
            IN Done([b EXCEPT
                  !.history = Append(@, record),
                  !.castle_perm = perm,
                  !.ep_sq = NoSquare,
                  !.key = k2,
                  !.fifty_move_counter = (@ + 1) % (U8MAX + 1),
                  !.hist_ply = @ + 1,
                  !.ply = @ + 1])
        capture(b) ==
            IF m.capture # Empty
            THEN LET c == clear_piece(b, m.to)
                 IN Then(c, Done([c.b EXCEPT !.fifty_move_counter = 0]))
            ELSE Done(b)
        pawn(b) ==
            IF ~IsPawn(piece) THEN Done(b)
            ELSE IF PAWN_START_MASK \subseteq m.flags
                 THEN LET ep == IF side = WHITE THEN m.from + 10 ELSE m.from - 10
                      IN Done([b EXCEPT !.fifty_move_counter = 0,
                                        !.ep_sq = ep,
                                        !.key = Xor(@, PIECE_KEYS(Empty, ep))])
                 ELSE Done([b EXCEPT !.fifty_move_counter = 0])
        promote(b) ==
            IF m.promote # Empty
            THEN LET c == clear_piece(b, m.to)
                 IN Then(c, add_piece(c.b, m.to, m.promote))
            ELSE Done(b)
        finish(b) ==
            Done([b EXCEPT
                  !.king_sq[side] = IF IsKing(piece) THEN m.to ELSE @,
                  !.side = 1 - side,
                  !.key = Xor(@, SIDE_KEY)])
        s1 == special(b0)
        s2 == Then(s1, rights(s1.b))
        s3 == Then(s2, capture(s2.b))
        s4 == Then(s3, pawn(s3.b))
        s5 == Then(s4, move_piece(s4.b, m.from, m.to))
        s6 == Then(s5, promote(s5.b))
    IN IF ~piece_valid(piece) \/ side \notin {WHITE, BLACK} THEN Failed(b0)
       ELSE Then(s6, finish(s6.b))

\* take the last move back: pop the record, restore what it holds and
\* reverse the updates of the indexes
take_move(b0) ==
    IF Len(b0.history) = 0 THEN Failed(b0)
    ELSE
    LET record == b0.history[Len(b0.history)]
        m == record.m
        side == 1 - b0.side
        popped == [b0 EXCEPT
                     !.history = SubSeq(@, 1, Len(@) - 1),
                     !.hist_ply = @ - 1,
                     !.ply = @ - 1,
                     !.castle_perm = record.castle_perm,
                     !.fifty_move_counter = record.fifty_move_counter,
                     !.ep_sq = record.ep_sq,
                     !.side = side]
        special(b) ==
            IF EP_MASK \subseteq m.flags
            THEN add_piece(b, BehindOf(side, m.to), IF side = WHITE THEN BP ELSE WP)
            ELSE IF CASTLE_MASK \subseteq m.flags
                 THEN IF CastleRook(m.to) = << >> THEN Failed(b)
                      ELSE move_piece(b, CastleRook(m.to)[2], CastleRook(m.to)[1])
                 ELSE Done(b)
        king(b) ==
            Done([b EXCEPT !.king_sq[side] = IF IsKing(b.pieces[m.from]) THEN m.from ELSE @])
        capture(b) ==
            IF m.capture # Empty THEN add_piece(b, m.to, m.capture) ELSE Done(b)
        promote(b) ==
            IF m.promote # Empty
            THEN LET c == clear_piece(b, m.from)
                 IN Then(c, add_piece(c.b, m.from, IF side = WHITE THEN WP ELSE BP))
            ELSE Done(b)
        key(b) == Done([b EXCEPT !.key = record.key])
        s1 == special(popped)
        s2 == Then(s1, move_piece(s1.b, m.to, m.from))
        s3 == Then(s2, king(s2.b))
        s4 == Then(s3, capture(s3.b))
        s5 == Then(s4, promote(s4.b))
    IN Then(s5, key(s5.b))

----------------------------------------------------------------------------
(* SpecUndo: a position, its moves, one of them applied and taken back *)

InitUndo == InitFen

\* apply the i-th move of the list; a panic ends the process
ApplyMove(i) ==
    /\ fen.state = "ok"
    /\ move_list.filled
    /\ applied.stage = "none"
    /\ LET r == make_move(board, move_list.moves[i])
       IN /\ board' = r.b
          /\ applied' = [stage |-> IF r.ok THEN "made" ELSE "panic",
                         before |-> board, index |-> i]
    /\ UNCHANGED <<fen, move_list, attacked>>

ApplyMoveAny == \E i \in 1..Len(move_list.moves) : ApplyMove(i)

UndoMove ==
    /\ applied.stage = "made"
    /\ LET r == take_move(board)
       IN /\ board' = r.b
          /\ applied' = [applied EXCEPT !.stage = IF r.ok THEN "undone" ELSE "panic"]
    /\ UNCHANGED <<fen, move_list, attacked>>

NextUndo ==
    \/ SetPosition /\ UNCHANGED <<ttVars, concVars, histVars, undoVars>>
    \/ GenerateAllMoves /\ UNCHANGED <<ttVars, concVars, histVars, undoVars>>
    \/ ApplyMoveAny /\ UNCHANGED <<ttVars, concVars, histVars>>
    \/ UndoMove /\ UNCHANGED <<ttVars, concVars, histVars>>

SpecUndo == InitUndo /\ [][NextUndo]_vars

\* the squares a piece list names
Listed(b, piece) == {b.p_list[piece][i] : i \in 0..(b.piece_num[piece] - 1)}

\* the fields the round trip is to restore
Restored(b, before) ==
    /\ b.key = before.key
    /\ b.pieces = before.pieces
    /\ \A piece \in WP..BK : Listed(b, piece) = Listed(before, piece)
    /\ b.piece_num = before.piece_num
    /\ b.big_piece_counts = before.big_piece_counts
    /\ b.major_piece_counts = before.major_piece_counts
    /\ b.minor_piece_counts = before.minor_piece_counts
    /\ b.material = before.material
    /\ b.pawns = before.pawns
    /\ b.king_sq = before.king_sq
    /\ b.castle_perm = before.castle_perm
    /\ b.ep_sq = before.ep_sq
    /\ b.fifty_move_counter = before.fifty_move_counter
    /\ Len(b.history) = Len(before.history)

\* C28: from any position populated by set_from_fen, every move produced by
\* generate_all_moves can be applied and taken back, and this restores the
\* hash key, the grid, the piece lists (as sets of squares), the counts, the
\* material, the pawn bit-sets, the king squares, the castling rights, the
\* en-passant target, the half-move clock and the history length.
C28_MakeUndoRestores ==
    /\ applied.stage # "panic"
    /\ applied.stage = "undone" => Restored(board, applied.before)

----------------------------------------------------------------------------
(* Claims about the depths held by a bucket *)

Written(entry) == entry.flag # "None"

C29_Step ==
    /\ lastStore' # NoCall =>
          \A i \in 1..TableSize :
              /\ table'[i].depth_preferred.depth >= table[i].depth_preferred.depth
              /\ table'[i].depth_preferred # table[i].depth_preferred =>
                    /\ i = Index(lastStore'.key)
                    /\ lastStore'.depth >= table[i].depth_preferred.depth
    /\ \A i \in 1..Len(table') :
          Written(table'[i].always_replace) =>
              table'[i].always_replace.depth < table'[i].depth_preferred.depth

\* C29: in every state reached from clear() by store() calls, for every
\* bucket, a store never lowers the depth of the depth-preferred entry, a
\* written always-replace entry has a depth strictly below the depth of the
\* depth-preferred entry, and a depth-preferred entry is displaced only by a
\* store of equal or greater depth.
C29_BucketDepths == [][C29_Step]_vars

\* a bucket holds a written always-replace entry beside a deeper
\* depth-preferred entry, the last call being a store
C29_Witness ==
    /\ lastStore # NoCall
    /\ \E i \in 1..Len(table) :
          /\ Written(table[i].always_replace)
          /\ Written(table[i].depth_preferred)
          /\ table[i].always_replace.depth < table[i].depth_preferred.depth

----------------------------------------------------------------------------
(* Claims about the ranks of the placement section *)

\* the placement from character i on describes whole ranks of 8 files, and
\* every piece letter stands on the square its place in the text gives it
RECURSIVE RanksAsWritten(_, _, _, _)
RanksAsWritten(chars, i, rank, file) ==
    IF i > Len(chars) THEN file = 8
    ELSE LET c == chars[i]
         IN IF c = "/" THEN file = 8 /\ RanksAsWritten(chars, i + 1, rank - 1, 0)
            ELSE IF InSeq(c, RunDigits)
                 THEN RanksAsWritten(chars, i + 1, rank, file + PosIn(c, RunDigits))
            ELSE IF InSeq(c, PieceLetters)
                 THEN /\ file < 8
                      /\ rank \in 0..7
                      /\ board.pieces[21 + file + rank * 10] = PosIn(c, PieceLetters)
                      /\ RanksAsWritten(chars, i + 1, rank, file + 1)
            ELSE FALSE

\* C30: set_from_fen accepts a description only if the letters and digit
\* runs of every rank of its placement add up to 8 files, and in every
\* accepted description each piece stands on the rank and file its position
\* in the text gives it.
C30_RanksOfEightFiles ==
    fen.state = "ok" => RanksAsWritten(PlacementOf(fen.text), 1, 7, 0)

====
